---- MODULE Spec2Model ----
(***************************************************************************)
(* serde_buf: a format-independent buffer (Value tree) for serde.          *)
(*                                                                         *)
(* Encoding of the Rust data:                                              *)
(*   Value            a tuple whose first element is the variant's name:   *)
(*                    <<"U8", 1>>, <<"Some", v>>, <<"Struct", name, fs>>.   *)
(*   Option<T>        <<>> for None, <<x>> for Some(x).                     *)
(*   Result<T, E>     <<"Ok", x>> or <<"Err", e>>.                          *)
(*   Error(String)    the message, as the tuple of the parts it is         *)
(*                    formatted from.                                      *)
(*   a typed value    the tree of push-interface calls its Serialize impl  *)
(*                    makes: <<"u8", 1>>, <<"seq", <<2>>, elems>>, ...      *)
(*   a call trace     the sequence of calls a recording encoder receives.  *)
(***************************************************************************)
EXTENDS Integers, Sequences, FiniteSets, TLC

VARIABLES
    t,            \* test_case: the typed value under test
    t_to_owned,   \* test_case: Result<Owned, Error> of capturing t
    ref_buf,      \* test_case: the hand-built Ref buffer for t
    t_tokens,     \* trace of serializing t directly
    owned_tokens, \* trace of serializing the captured buffer
    ref_tokens,   \* trace of serializing the hand-built Ref buffer
    conv,         \* result of the last From conversion round trip
    target,       \* the typed target the buffer is decoded against
    owned_to_t,   \* Result of decoding the captured buffer
    ref_to_t,     \* Result of decoding the hand-built Ref buffer
    key,          \* SerializeMap.key
    fields,       \* SerializeMap.fields
    capacity,     \* the capacity the builder reserved when it was created
    ret,          \* what the last builder / cursor / enum call returned
    log,          \* the calls made so far on the builder / cursor (history)
    de,           \* Deserializer.0: the buffer being decoded
    requested,    \* the decode entry point the target called
    visited,      \* the visitor call the Deserializer made
    remaining,    \* Map.remaining / Seq.0: the cursor's unread entries
    value,        \* Map.value: the pending value of the map cursor
    cursor,       \* which cursor the visitor holds: Seq, or Map and its key type
    enum,         \* the Enum access handed to visit_enum
    depth         \* how many deserializers deep the decode has descended

vars == <<t, t_to_owned, ref_buf, t_tokens, owned_tokens, ref_tokens, conv,
          target, owned_to_t, ref_to_t, key, fields, capacity, ret, log,
          de, requested, visited, remaining, value, cursor, enum, depth>>

serVars == <<t, t_to_owned, ref_buf, t_tokens, owned_tokens, ref_tokens, conv,
             target, owned_to_t, ref_to_t>>
mapVars == <<key, fields, capacity>>
deVars == <<de, requested, visited, remaining, value, cursor, enum, depth>>

(***************************************************************************)
(* Bounds of the model.                                                    *)
(***************************************************************************)
\* the longest list of children of one composite typed value
MaxLen == 2
\* the longest sequence of calls made on one map builder
MaxCalls == 4
\* the longest sequence of calls made on one cursor or enum access
MaxPulls == 6
\* how many times the buffers of one behaviour are serialized or decoded
MaxReplays == 3

(***************************************************************************)
(* Generic helpers.                                                        *)
(***************************************************************************)
Null == <<>>

None == <<>>

Some(x) == <<x>>

is_some(o) == o # <<>>

Ok(x) == <<"Ok", x>>

Err(e) == <<"Err", e>>

IsOk(r) == r # Null /\ r[1] = "Ok"

IsErr(r) == r # Null /\ r[1] = "Err"

SeqsUpTo(S, n) == UNION {[1..k -> S] : k \in 0..n}

\* cmp::min
min(a, b) == IF a <= b THEN a ELSE b

(***************************************************************************)
(* lib.rs: Error, Owned, Ref.                                              *)
(***************************************************************************)
\* ser::Error::custom / de::Error::custom: Error(msg.to_string())
custom(msg) == <<msg>>

\* de::Error::invalid_type: custom(format_args!("invalid type: {}, expected {}"))
invalid_type(unexp, exp) == <<"invalid type: ", unexp, ", expected ", exp>>

\* a Display that writes the message the error was created with
Error_fmt_message(self) == self[1]

\* impl fmt::Display for Error: write!(f, "error buffering a value")
Error_fmt(self) == "error buffering a value"

Owned(v) == <<"Owned", v>>

Ref(v) == <<"Ref", v>>

\* the .0 field of Owned and Ref
Inner(b) == b[2]

(***************************************************************************)
(* ser.rs: the capture adapter, impl serde::Serializer for Serializer.     *)
(* x.serialize(Serializer::new()) is T_serialize(x): the typed value x     *)
(* drives the Serializer with the calls of its own Serialize impl.         *)
(***************************************************************************)
RECURSIVE T_serialize(_)

\* the cap on the capacity reserved from a length hint
CapacityCap == 32

Serializer_serialize_bool(v) == Ok(Owned(<<"Bool", v>>))

Serializer_serialize_i8(v) == Ok(Owned(<<"I8", v>>))

Serializer_serialize_i16(v) == Ok(Owned(<<"I16", v>>))

Serializer_serialize_i32(v) == Ok(Owned(<<"I32", v>>))

Serializer_serialize_i64(v) == Ok(Owned(<<"I64", v>>))

Serializer_serialize_i128(v) == Ok(Owned(<<"I128", v>>))

Serializer_serialize_u8(v) == Ok(Owned(<<"U8", v>>))

Serializer_serialize_u16(v) == Ok(Owned(<<"U16", v>>))

Serializer_serialize_u32(v) == Ok(Owned(<<"U32", v>>))

Serializer_serialize_u64(v) == Ok(Owned(<<"U64", v>>))

Serializer_serialize_u128(v) == Ok(Owned(<<"U128", v>>))

Serializer_serialize_f32(v) == Ok(Owned(<<"F32", v>>))

Serializer_serialize_f64(v) == Ok(Owned(<<"F64", v>>))

Serializer_serialize_char(v) == Ok(Owned(<<"Char", v>>))

\* a serialize_str that stores the source's slice instead of a copy of it
Serializer_serialize_str_borrowing(v) == Ok(Owned(<<"BorrowedStr", v, "a">>))

\* v.to_owned(): the stored leaf is an owned copy
Serializer_serialize_str(v) == Ok(Owned(<<"Str", v>>))

Serializer_serialize_bytes(v) == Ok(Owned(<<"Bytes", v>>))

Serializer_serialize_none == Ok(Owned(<<"None">>))

\* a serialize_some that stores the wrapped value without a level of its own
Serializer_serialize_some_flat(v) == T_serialize(v)

Serializer_serialize_some(v) ==
    LET r == T_serialize(v)
    IN  IF IsErr(r) THEN r ELSE Ok(Owned(<<"Some", Inner(r[2])>>))

Serializer_serialize_unit == Ok(Owned(<<"Unit">>))

Serializer_serialize_unit_struct(name) == Ok(Owned(<<"UnitStruct", name>>))

Serializer_serialize_unit_variant(name, variant_index, variant) ==
    Ok(Owned(<<"UnitVariant", name, variant_index, variant>>))

Serializer_serialize_newtype_struct(name, v) ==
    LET r == T_serialize(v)
    IN  IF IsErr(r) THEN r ELSE Ok(Owned(<<"NewtypeStruct", name, Inner(r[2])>>))

Serializer_serialize_newtype_variant(name, variant_index, variant, v) ==
    LET r == T_serialize(v)
    IN  IF IsErr(r) THEN r
        ELSE Ok(Owned(<<"NewtypeVariant", name, variant_index, variant, Inner(r[2])>>))

\* len.unwrap_or(0) of an Option<usize>
unwrap_or_0(len) == IF is_some(len) THEN len[1] ELSE 0

\* a serialize_seq that reserves what the hint declares
Serializer_serialize_seq_unclamped(len) ==
    Ok([kind |-> "SerializeSeq", capacity |-> unwrap_or_0(len), fields |-> <<>>])

\* the builders: kind names the builder struct, capacity is what
\* Vec::with_capacity reserved, the other fields are the struct's own
Serializer_serialize_seq(len) ==
    Ok([kind |-> "SerializeSeq", capacity |-> min(unwrap_or_0(len), CapacityCap),
        fields |-> <<>>])

Serializer_serialize_tuple(len) ==
    Ok([kind |-> "SerializeTuple", capacity |-> min(len, CapacityCap),
        fields |-> <<>>])

Serializer_serialize_tuple_struct(name, len) ==
    Ok([kind |-> "SerializeTupleStruct", capacity |-> min(len, CapacityCap),
        name |-> name, fields |-> <<>>])

Serializer_serialize_tuple_variant(name, variant_index, variant, len) ==
    Ok([kind |-> "SerializeTupleVariant", capacity |-> min(len, CapacityCap),
        name |-> name, variant_index |-> variant_index, variant |-> variant,
        fields |-> <<>>])

Serializer_serialize_map(len) ==
    Ok([kind |-> "SerializeMap", capacity |-> min(unwrap_or_0(len), CapacityCap),
        key |-> None, fields |-> <<>>])

Serializer_serialize_struct(name, len) ==
    Ok([kind |-> "SerializeStruct", capacity |-> min(len, CapacityCap),
        name |-> name, fields |-> <<>>])

Serializer_serialize_struct_variant(name, variant_index, variant, len) ==
    Ok([kind |-> "SerializeStructVariant", capacity |-> min(len, CapacityCap),
        name |-> name, variant_index |-> variant_index, variant |-> variant,
        fields |-> <<>>])

(***************************************************************************)
(* ser.rs: the builders. A &mut self method returns [self, ret]: the       *)
(* builder after the call and the Result the call returned.                *)
(***************************************************************************)
\* self.fields.push(value.serialize(Serializer::new())?.0); Ok(())
push_value(self, v) ==
    LET r == T_serialize(v)
    IN  IF IsErr(r) THEN [self |-> self, ret |-> r]
        ELSE [self |-> [self EXCEPT !.fields = Append(@, Inner(r[2]))],
              ret |-> Ok(<<>>)]

\* self.fields.push((key, value.serialize(Serializer::new())?.0)); Ok(())
push_field(self, k, v) ==
    LET r == T_serialize(v)
    IN  IF IsErr(r) THEN [self |-> self, ret |-> r]
        ELSE [self |-> [self EXCEPT !.fields = Append(@, <<k, Inner(r[2])>>)],
              ret |-> Ok(<<>>)]

\* an element call that skips a child whose capture failed
SerializeSeq_serialize_element_skipping(self, v) ==
    IF IsErr(T_serialize(v)) THEN [self |-> self, ret |-> Ok(<<>>)]
    ELSE push_value(self, v)

SerializeSeq_serialize_element(self, v) == push_value(self, v)

SerializeSeq_end(self) == Ok(Owned(<<"Seq", self.fields>>))

SerializeTuple_serialize_element(self, v) == push_value(self, v)

SerializeTuple_end(self) == Ok(Owned(<<"Tuple", self.fields>>))

SerializeTupleStruct_serialize_field(self, v) == push_value(self, v)

SerializeTupleStruct_end(self) ==
    Ok(Owned(<<"TupleStruct", self.name, self.fields>>))

SerializeTupleVariant_serialize_field(self, v) == push_value(self, v)

SerializeTupleVariant_end(self) ==
    Ok(Owned(<<"TupleVariant", self.name, self.variant_index, self.variant,
               self.fields>>))

SerializeStruct_serialize_field(self, k, v) == push_field(self, k, v)

SerializeStruct_end(self) == Ok(Owned(<<"Struct", self.name, self.fields>>))

SerializeStructVariant_serialize_field(self, k, v) == push_field(self, k, v)

SerializeStructVariant_end(self) ==
    Ok(Owned(<<"StructVariant", self.name, self.variant_index, self.variant,
               self.fields>>))

\* a serialize_key that captures its argument before it looks at the staged key
SerializeMap_serialize_key_eager(self, k) ==
    LET r == T_serialize(k)
    IN  IF IsErr(r) THEN [self |-> self, ret |-> r]
        ELSE IF is_some(self.key)
        THEN [self |-> self, ret |-> Err(custom("missing map value"))]
        ELSE [self |-> [self EXCEPT !.key = Some(Inner(r[2]))], ret |-> Ok(<<>>)]

SerializeMap_serialize_key(self, k) ==
    IF is_some(self.key)
    THEN [self |-> self, ret |-> Err(custom("missing map value"))]
    ELSE LET r == T_serialize(k)
         IN  IF IsErr(r) THEN [self |-> self, ret |-> r]
             ELSE [self |-> [self EXCEPT !.key = Some(Inner(r[2]))],
                   ret |-> Ok(<<>>)]

\* a serialize_value that leaves the key staged when capturing the value fails
SerializeMap_serialize_value_restoring(self, v) ==
    IF ~is_some(self.key)
    THEN [self |-> self, ret |-> Err(custom("missing map key"))]
    ELSE LET k == self.key[1]
             r == T_serialize(v)
         IN  IF IsErr(r) THEN [self |-> self, ret |-> r]
             ELSE [self |-> [self EXCEPT !.key = None,
                                         !.fields = Append(@, <<k, Inner(r[2])>>)],
                   ret |-> Ok(<<>>)]

\* a serialize_value that keeps one pair per key: a pair whose key is already
\* stored replaces the stored pair
SerializeMap_serialize_value_unique(self, v) ==
    IF ~is_some(self.key)
    THEN [self |-> self, ret |-> Err(custom("missing map key"))]
    ELSE LET k == self.key[1]
             taken == [self EXCEPT !.key = None]
             r == T_serialize(v)
             others == SelectSeq(self.fields, LAMBDA p : p[1] # k)
         IN  IF IsErr(r) THEN [self |-> taken, ret |-> r]
             ELSE [self |-> [taken EXCEPT !.fields = Append(others, <<k, Inner(r[2])>>)],
                   ret |-> Ok(<<>>)]

\* self.key.take() runs before the value is captured
SerializeMap_serialize_value(self, v) ==
    IF ~is_some(self.key)
    THEN [self |-> self, ret |-> Err(custom("missing map key"))]
    ELSE LET k == self.key[1]
             taken == [self EXCEPT !.key = None]
             r == T_serialize(v)
         IN  IF IsErr(r) THEN [self |-> taken, ret |-> r]
             ELSE [self |-> [taken EXCEPT !.fields = Append(@, <<k, Inner(r[2])>>)],
                   ret |-> Ok(<<>>)]

\* a serialize_entry that does not look at the staged key
SerializeMap_serialize_entry_unchecked(self, k, v) ==
    LET rk == T_serialize(k)
    IN  IF IsErr(rk) THEN [self |-> self, ret |-> rk]
        ELSE LET rv == T_serialize(v)
             IN  IF IsErr(rv) THEN [self |-> self, ret |-> rv]
                 ELSE [self |-> [self EXCEPT
                                    !.fields = Append(@, <<Inner(rk[2]), Inner(rv[2])>>)],
                       ret |-> Ok(<<>>)]

SerializeMap_serialize_entry(self, k, v) ==
    IF is_some(self.key)
    THEN [self |-> self, ret |-> Err(custom("missing map value"))]
    ELSE LET rk == T_serialize(k)
         IN  IF IsErr(rk) THEN [self |-> self, ret |-> rk]
             ELSE LET rv == T_serialize(v)
                  IN  IF IsErr(rv) THEN [self |-> self, ret |-> rv]
                      ELSE [self |-> [self EXCEPT
                                         !.fields = Append(@, <<Inner(rk[2]), Inner(rv[2])>>)],
                            ret |-> Ok(<<>>)]

SerializeMap_end(self) ==
    IF is_some(self.key)
    THEN Err(custom("missing map value"))
    ELSE Ok(Owned(<<"Map", self.fields>>))

(***************************************************************************)
(* lib.rs tests: the Serialize impls of the typed values. A composite      *)
(* value opens a builder, makes one call per child, each followed by ?,    *)
(* and ends the builder.                                                   *)
(***************************************************************************)
\* one builder call of the typed value: an element, a field, or one of the
\* three map calls
Step(self, call) ==
    CASE self.kind = "SerializeSeq" -> SerializeSeq_serialize_element(self, call)
      [] self.kind = "SerializeTuple" -> SerializeTuple_serialize_element(self, call)
      [] self.kind = "SerializeTupleStruct" ->
            SerializeTupleStruct_serialize_field(self, call)
      [] self.kind = "SerializeTupleVariant" ->
            SerializeTupleVariant_serialize_field(self, call)
      [] self.kind = "SerializeStruct" ->
            SerializeStruct_serialize_field(self, call[1], call[2])
      [] self.kind = "SerializeStructVariant" ->
            SerializeStructVariant_serialize_field(self, call[1], call[2])
      [] self.kind = "SerializeMap" /\ call[1] = "key" ->
            SerializeMap_serialize_key(self, call[2])
      [] self.kind = "SerializeMap" /\ call[1] = "value" ->
            SerializeMap_serialize_value(self, call[2])
      [] self.kind = "SerializeMap" /\ call[1] = "entry" ->
            SerializeMap_serialize_entry(self, call[2], call[3])

End(self) ==
    CASE self.kind = "SerializeSeq" -> SerializeSeq_end(self)
      [] self.kind = "SerializeTuple" -> SerializeTuple_end(self)
      [] self.kind = "SerializeTupleStruct" -> SerializeTupleStruct_end(self)
      [] self.kind = "SerializeTupleVariant" -> SerializeTupleVariant_end(self)
      [] self.kind = "SerializeStruct" -> SerializeStruct_end(self)
      [] self.kind = "SerializeStructVariant" -> SerializeStructVariant_end(self)
      [] self.kind = "SerializeMap" -> SerializeMap_end(self)

RECURSIVE Drive(_, _)
Drive(self, calls) ==
    IF calls = <<>> THEN End(self)
    ELSE LET s == Step(self, Head(calls))
         IN  IF IsErr(s.ret) THEN s.ret ELSE Drive(s.self, Tail(calls))

T_serialize(x) ==
    CASE x[1] = "unit" -> Serializer_serialize_unit
      [] x[1] = "bool" -> Serializer_serialize_bool(x[2])
      [] x[1] = "i8" -> Serializer_serialize_i8(x[2])
      [] x[1] = "i16" -> Serializer_serialize_i16(x[2])
      [] x[1] = "i32" -> Serializer_serialize_i32(x[2])
      [] x[1] = "i64" -> Serializer_serialize_i64(x[2])
      [] x[1] = "i128" -> Serializer_serialize_i128(x[2])
      [] x[1] = "u8" -> Serializer_serialize_u8(x[2])
      [] x[1] = "u16" -> Serializer_serialize_u16(x[2])
      [] x[1] = "u32" -> Serializer_serialize_u32(x[2])
      [] x[1] = "u64" -> Serializer_serialize_u64(x[2])
      [] x[1] = "u128" -> Serializer_serialize_u128(x[2])
      [] x[1] = "f32" -> Serializer_serialize_f32(x[2])
      [] x[1] = "f64" -> Serializer_serialize_f64(x[2])
      [] x[1] = "char" -> Serializer_serialize_char(x[2])
      [] x[1] = "str" -> Serializer_serialize_str(x[2])
      [] x[1] = "bytes" -> Serializer_serialize_bytes(x[2])
      [] x[1] = "none" -> Serializer_serialize_none
      [] x[1] = "some" -> Serializer_serialize_some(x[2])
      [] x[1] = "unit_struct" -> Serializer_serialize_unit_struct(x[2])
      [] x[1] = "unit_variant" -> Serializer_serialize_unit_variant(x[2], x[3], x[4])
      [] x[1] = "newtype_struct" -> Serializer_serialize_newtype_struct(x[2], x[3])
      [] x[1] = "newtype_variant" ->
            Serializer_serialize_newtype_variant(x[2], x[3], x[4], x[5])
      [] x[1] = "seq" -> Drive(Serializer_serialize_seq(x[2])[2], x[3])
      [] x[1] = "tuple" -> Drive(Serializer_serialize_tuple(x[2])[2], x[3])
      [] x[1] = "tuple_struct" ->
            Drive(Serializer_serialize_tuple_struct(x[2], x[3])[2], x[4])
      [] x[1] = "tuple_variant" ->
            Drive(Serializer_serialize_tuple_variant(x[2], x[3], x[4], x[5])[2], x[6])
      [] x[1] = "map" -> Drive(Serializer_serialize_map(x[2])[2], x[3])
      [] x[1] = "struct" -> Drive(Serializer_serialize_struct(x[2], x[3])[2], x[4])
      [] x[1] = "struct_variant" ->
            Drive(Serializer_serialize_struct_variant(x[2], x[3], x[4], x[5])[2], x[6])
      \* a Serialize impl that fails: Err(S::Error::custom(msg))
      [] x[1] = "custom" -> Err(custom(x[2]))

\* Owned::buffer
Owned_buffer(v) == T_serialize(v)

(***************************************************************************)
(* The calls the typed value makes on a recording encoder: each call is    *)
(* recorded with its arguments, a child argument as the calls it makes in  *)
(* turn.                                                                   *)
(***************************************************************************)
RECURSIVE T_tokens(_)
RECURSIVE T_calls_tokens(_, _)
T_calls_tokens(kind, calls) ==
    IF calls = <<>> THEN <<>>
    ELSE LET c == Head(calls)
             one ==
               CASE kind \in {"seq", "tuple"} ->
                       <<<<"serialize_element">>>> \o T_tokens(c)
                 [] kind \in {"tuple_struct", "tuple_variant"} ->
                       <<<<"serialize_field">>>> \o T_tokens(c)
                 [] kind \in {"struct", "struct_variant"} ->
                       <<<<"serialize_field", c[1]>>>> \o T_tokens(c[2])
                 [] kind = "map" /\ c[1] = "key" ->
                       <<<<"serialize_key">>>> \o T_tokens(c[2])
                 [] kind = "map" /\ c[1] = "value" ->
                       <<<<"serialize_value">>>> \o T_tokens(c[2])
                 [] kind = "map" /\ c[1] = "entry" ->
                       <<<<"serialize_entry">>>> \o T_tokens(c[2]) \o T_tokens(c[3])
         IN  one \o T_calls_tokens(kind, Tail(calls))

T_tokens(x) ==
    CASE x[1] \in {"unit", "none"} -> <<<<"serialize_" \o x[1]>>>>
      [] x[1] \in {"bool", "i8", "i16", "i32", "i64", "i128", "u8", "u16", "u32",
                   "u64", "u128", "f32", "f64", "char", "str", "bytes",
                   "unit_struct"} ->
            <<<<"serialize_" \o x[1], x[2]>>>>
      [] x[1] = "some" -> <<<<"serialize_some">>>> \o T_tokens(x[2])
      [] x[1] = "unit_variant" -> <<<<"serialize_unit_variant", x[2], x[3], x[4]>>>>
      [] x[1] = "newtype_struct" ->
            <<<<"serialize_newtype_struct", x[2]>>>> \o T_tokens(x[3])
      [] x[1] = "newtype_variant" ->
            <<<<"serialize_newtype_variant", x[2], x[3], x[4]>>>> \o T_tokens(x[5])
      [] x[1] \in {"seq", "tuple", "map"} ->
            <<<<"serialize_" \o x[1], x[2]>>>> \o T_calls_tokens(x[1], x[3])
               \o <<<<"end">>>>
      [] x[1] \in {"tuple_struct", "struct"} ->
            <<<<"serialize_" \o x[1], x[2], x[3]>>>> \o T_calls_tokens(x[1], x[4])
               \o <<<<"end">>>>
      [] x[1] \in {"tuple_variant", "struct_variant"} ->
            <<<<"serialize_" \o x[1], x[2], x[3], x[4], x[5]>>>>
               \o T_calls_tokens(x[1], x[6]) \o <<<<"end">>>>
      [] x[1] = "custom" -> <<<<"Err", x[2]>>>>

(***************************************************************************)
(* ser.rs: impl Serialize for Value, Owned and Ref. The result is the      *)
(* sequence of calls made on the serializer (a recording encoder).         *)
(***************************************************************************)
RECURSIVE Value_serialize(_)

\* the serializer method of each scalar arm
ScalarMethod(tag) ==
    CASE tag = "U8" -> "serialize_u8" [] tag = "U16" -> "serialize_u16"
      [] tag = "U32" -> "serialize_u32" [] tag = "U64" -> "serialize_u64"
      [] tag = "U128" -> "serialize_u128" [] tag = "I8" -> "serialize_i8"
      [] tag = "I16" -> "serialize_i16" [] tag = "I32" -> "serialize_i32"
      [] tag = "I64" -> "serialize_i64" [] tag = "I128" -> "serialize_i128"
      [] tag = "F32" -> "serialize_f32" [] tag = "F64" -> "serialize_f64"
      [] tag = "Bool" -> "serialize_bool" [] tag = "Char" -> "serialize_char"

ScalarTags == {"U8", "U16", "U32", "U64", "U128", "I8", "I16", "I32", "I64",
               "I128", "F32", "F64", "Bool", "Char"}

Value_serialize_scalar(tag, v) == <<<<ScalarMethod(tag), v>>>>

Value_serialize_Str(v) == <<<<"serialize_str", v>>>>

\* a borrowed string replayed as its bytes
Value_serialize_BorrowedStr_as_bytes(v) == <<<<"serialize_bytes", v>>>>

\* a borrowed leaf is <<"BorrowedStr", v, a>>: the content and the lifetime 'a
Value_serialize_BorrowedStr(v) == <<<<"serialize_str", v>>>>

Value_serialize_Bytes(v) == <<<<"serialize_bytes", v>>>>

Value_serialize_BorrowedBytes(v) == <<<<"serialize_bytes", v>>>>

\* for field in &**fields { serializer.serialize_element(field)?; }
RECURSIVE each_value(_, _)
each_value(method, vs) ==
    IF vs = <<>> THEN <<>>
    ELSE <<<<method>>>> \o Value_serialize(Head(vs)) \o each_value(method, Tail(vs))

\* for (name, field) in &**fields { serializer.serialize_field(name, field)?; }
RECURSIVE each_field(_)
each_field(fs) ==
    IF fs = <<>> THEN <<>>
    ELSE <<<<"serialize_field", Head(fs)[1]>>>> \o Value_serialize(Head(fs)[2])
            \o each_field(Tail(fs))

\* for (key, value) in &**v { serializer.serialize_entry(key, value)?; }
RECURSIVE each_entry(_)
each_entry(es) ==
    IF es = <<>> THEN <<>>
    ELSE <<<<"serialize_entry">>>> \o Value_serialize(Head(es)[1])
            \o Value_serialize(Head(es)[2]) \o each_entry(Tail(es))

Value_serialize_Struct(name, fs) ==
    <<<<"serialize_struct", name, Len(fs)>>>> \o each_field(fs) \o <<<<"end">>>>

Value_serialize_TupleStruct(name, fs) ==
    <<<<"serialize_tuple_struct", name, Len(fs)>>>>
        \o each_value("serialize_field", fs) \o <<<<"end">>>>

Value_serialize_Tuple(v) ==
    <<<<"serialize_tuple", Len(v)>>>> \o each_value("serialize_element", v)
        \o <<<<"end">>>>

Value_serialize_TupleVariant(name, variant_index, variant, fs) ==
    <<<<"serialize_tuple_variant", name, variant_index, variant, Len(fs)>>>>
        \o each_value("serialize_field", fs) \o <<<<"end">>>>

Value_serialize_StructVariant(name, variant_index, variant, fs) ==
    <<<<"serialize_struct_variant", name, variant_index, variant, Len(fs)>>>>
        \o each_field(fs) \o <<<<"end">>>>

\* a Seq arm that declares no length
Value_serialize_Seq_unsized(v) ==
    <<<<"serialize_seq", None>>>> \o each_value("serialize_element", v)
        \o <<<<"end">>>>

Value_serialize_Seq(v) ==
    <<<<"serialize_seq", Some(Len(v))>>>> \o each_value("serialize_element", v)
        \o <<<<"end">>>>

\* a Map arm that emits each pair as a key call and a value call
Value_serialize_Map_staged(v) ==
    LET pair(e) == <<<<"serialize_key">>>> \o Value_serialize(e[1])
                       \o <<<<"serialize_value">>>> \o Value_serialize(e[2])
        F[i \in 0..Len(v)] == IF i = 0 THEN <<>> ELSE F[i - 1] \o pair(v[i])
    IN  <<<<"serialize_map", Some(Len(v))>>>> \o F[Len(v)] \o <<<<"end">>>>

Value_serialize_Map(v) ==
    <<<<"serialize_map", Some(Len(v))>>>> \o each_entry(v) \o <<<<"end">>>>

Value_serialize(v) ==
    CASE v[1] = "Unit" -> <<<<"serialize_unit">>>>
      [] v[1] \in ScalarTags -> Value_serialize_scalar(v[1], v[2])
      [] v[1] = "Str" -> Value_serialize_Str(v[2])
      [] v[1] = "BorrowedStr" -> Value_serialize_BorrowedStr(v[2])
      [] v[1] = "Bytes" -> Value_serialize_Bytes(v[2])
      [] v[1] = "BorrowedBytes" -> Value_serialize_BorrowedBytes(v[2])
      [] v[1] = "None" -> <<<<"serialize_none">>>>
      [] v[1] = "Some" -> <<<<"serialize_some">>>> \o Value_serialize(v[2])
      [] v[1] = "UnitStruct" -> <<<<"serialize_unit_struct", v[2]>>>>
      [] v[1] = "NewtypeStruct" ->
            <<<<"serialize_newtype_struct", v[2]>>>> \o Value_serialize(v[3])
      [] v[1] = "Struct" -> Value_serialize_Struct(v[2], v[3])
      [] v[1] = "TupleStruct" -> Value_serialize_TupleStruct(v[2], v[3])
      [] v[1] = "Tuple" -> Value_serialize_Tuple(v[2])
      [] v[1] = "UnitVariant" -> <<<<"serialize_unit_variant", v[2], v[3], v[4]>>>>
      [] v[1] = "NewtypeVariant" ->
            <<<<"serialize_newtype_variant", v[2], v[3], v[4]>>>>
                \o Value_serialize(v[5])
      [] v[1] = "TupleVariant" -> Value_serialize_TupleVariant(v[2], v[3], v[4], v[5])
      [] v[1] = "StructVariant" ->
            Value_serialize_StructVariant(v[2], v[3], v[4], v[5])
      [] v[1] = "Seq" -> Value_serialize_Seq(v[2])
      [] v[1] = "Map" -> Value_serialize_Map(v[2])

\* impl Serialize for Owned: self.0.serialize(serializer)
Owned_serialize(self) == Value_serialize(Inner(self))

\* impl Serialize for Ref: self.0.serialize(serializer)
Ref_serialize(self) == Value_serialize(Inner(self))

(***************************************************************************)
(* lib.rs: the conversions and the construction API of Ref.                *)
(***************************************************************************)
\* the lifetimes a borrowed leaf can have
Lifetimes == {"static", "a"}

\* whether every borrowed leaf of a tree lives for 'static: the tree is a
\* Value<'static>
RECURSIVE IsStatic(_)
IsStatic(v) ==
    CASE v[1] \in {"BorrowedStr", "BorrowedBytes"} -> v[3] = "static"
      [] v[1] = "Some" -> IsStatic(v[2])
      [] v[1] = "NewtypeStruct" -> IsStatic(v[3])
      [] v[1] = "NewtypeVariant" -> IsStatic(v[5])
      [] v[1] \in {"Tuple", "Seq"} -> \A i \in 1..Len(v[2]) : IsStatic(v[2][i])
      [] v[1] = "TupleStruct" -> \A i \in 1..Len(v[3]) : IsStatic(v[3][i])
      [] v[1] = "TupleVariant" -> \A i \in 1..Len(v[5]) : IsStatic(v[5][i])
      [] v[1] = "Struct" -> \A i \in 1..Len(v[3]) : IsStatic(v[3][i][2])
      [] v[1] = "StructVariant" -> \A i \in 1..Len(v[5]) : IsStatic(v[5][i][2])
      [] v[1] = "Map" ->
            \A i \in 1..Len(v[2]) : IsStatic(v[2][i][1]) /\ IsStatic(v[2][i][2])
      [] OTHER -> TRUE

\* a conversion that copies a borrowed string into an owned one
Owned_from_into_owned(r) ==
    IF Inner(r)[1] = "BorrowedStr" THEN Owned(<<"Str", Inner(r)[2]>>)
    ELSE Owned(Inner(r))

\* impl From<Ref<'static>> for Owned
Owned_from(r) == Owned(Inner(r))

\* impl From<Owned> for Ref<'static>
Ref_from(o) == Ref(Inner(o))

Ref_unit == Ref(<<"Unit">>)

Ref_bool(v) == Ref(<<"Bool", v>>)

Ref_u8(v) == Ref(<<"U8", v>>)

Ref_u16(v) == Ref(<<"U16", v>>)

Ref_u32(v) == Ref(<<"U32", v>>)

Ref_u64(v) == Ref(<<"U64", v>>)

Ref_u128(v) == Ref(<<"U128", v>>)

Ref_i8(v) == Ref(<<"I8", v>>)

Ref_i16(v) == Ref(<<"I16", v>>)

Ref_i32(v) == Ref(<<"I32", v>>)

Ref_i64(v) == Ref(<<"I64", v>>)

Ref_i128(v) == Ref(<<"I128", v>>)

Ref_f32(v) == Ref(<<"F32", v>>)

Ref_f64(v) == Ref(<<"F64", v>>)

Ref_char(v) == Ref(<<"Char", v>>)

Ref_owned_str(v) == Ref(<<"Str", v>>)

\* v: &'a str
Ref_str(v, a) == Ref(<<"BorrowedStr", v, a>>)

Ref_owned_bytes(v) == Ref(<<"Bytes", v>>)

\* v: &'a [u8]
Ref_bytes(v, a) == Ref(<<"BorrowedBytes", v, a>>)

Ref_none == Ref(<<"None">>)

Ref_some(v) == Ref(<<"Some", Inner(v)>>)

Ref_unit_struct(name) == Ref(<<"UnitStruct", name>>)

Ref_newtype_struct(name, v) == Ref(<<"NewtypeStruct", name, Inner(v)>>)

\* .map(|v| v.0).collect()
inners(rs) == [i \in 1..Len(rs) |-> Inner(rs[i])]

\* .map(|(k, v)| (k, v.0)).collect()
field_inners(fs) == [i \in 1..Len(fs) |-> <<fs[i][1], Inner(fs[i][2])>>]

\* .map(|(k, v)| (k.0, v.0)).collect()
pair_inners(ps) == [i \in 1..Len(ps) |-> <<Inner(ps[i][1]), Inner(ps[i][2])>>]

Ref_record_struct(name, fs) == Ref(<<"Struct", name, field_inners(fs)>>)

Ref_tuple_struct(name, fs) == Ref(<<"TupleStruct", name, inners(fs)>>)

Ref_tuple(fs) == Ref(<<"Tuple", inners(fs)>>)

Ref_unit_variant(name, variant_index, variant) ==
    Ref(<<"UnitVariant", name, variant_index, variant>>)

Ref_newtype_variant(name, variant_index, variant, v) ==
    Ref(<<"NewtypeVariant", name, variant_index, variant, Inner(v)>>)

Ref_tuple_variant(name, variant_index, variant, fs) ==
    Ref(<<"TupleVariant", name, variant_index, variant, inners(fs)>>)

Ref_record_struct_variant(name, variant_index, variant, fs) ==
    Ref(<<"StructVariant", name, variant_index, variant, field_inners(fs)>>)

Ref_seq(fs) == Ref(<<"Seq", inners(fs)>>)

Ref_map(ps) == Ref(<<"Map", pair_inners(ps)>>)

(***************************************************************************)
(* lib.rs tests::consistency: the Ref buffer built by hand for a typed     *)
(* value, one constructor per node. A string or bytes leaf is built        *)
(* borrowed (with lifetime a) or owned.                                    *)
(***************************************************************************)
\* the (key, value) pairs a map value holds: a key call followed by a value
\* call, or one entry call; Null when the calls are not paired
RECURSIVE MapPairs(_)
MapPairs(calls) ==
    IF calls = <<>> THEN <<"pairs", <<>>>>
    ELSE IF Head(calls)[1] = "entry"
    THEN LET rest == MapPairs(Tail(calls))
         IN  IF rest = Null THEN Null
             ELSE <<"pairs", <<<<Head(calls)[2], Head(calls)[3]>>>> \o rest[2]>>
    ELSE IF Head(calls)[1] = "key" /\ Len(calls) >= 2 /\ calls[2][1] = "value"
    THEN LET rest == MapPairs(Tail(Tail(calls)))
         IN  IF rest = Null THEN Null
             ELSE <<"pairs", <<<<calls[1][2], calls[2][2]>>>> \o rest[2]>>
    ELSE Null

\* whether a typed value has a logical value: no Serialize impl in it fails
\* and its map calls are paired
RECURSIVE IsLogical(_)
IsLogical(x) ==
    CASE x[1] = "custom" -> FALSE
      [] x[1] = "some" -> IsLogical(x[2])
      [] x[1] = "newtype_struct" -> IsLogical(x[3])
      [] x[1] = "newtype_variant" -> IsLogical(x[5])
      [] x[1] \in {"seq", "tuple"} -> \A i \in 1..Len(x[3]) : IsLogical(x[3][i])
      [] x[1] = "tuple_struct" -> \A i \in 1..Len(x[4]) : IsLogical(x[4][i])
      [] x[1] = "tuple_variant" -> \A i \in 1..Len(x[6]) : IsLogical(x[6][i])
      [] x[1] = "struct" -> \A i \in 1..Len(x[4]) : IsLogical(x[4][i][2])
      [] x[1] = "struct_variant" -> \A i \in 1..Len(x[6]) : IsLogical(x[6][i][2])
      [] x[1] = "map" ->
            /\ MapPairs(x[3]) # Null
            /\ \A i \in 1..Len(MapPairs(x[3])[2]) :
                  /\ IsLogical(MapPairs(x[3])[2][i][1])
                  /\ IsLogical(MapPairs(x[3])[2][i][2])
      [] OTHER -> TRUE

RECURSIVE Ref_of(_, _, _)
Ref_of(x, borrow, a) ==
    LET kids(xs) == [i \in 1..Len(xs) |-> Ref_of(xs[i], borrow, a)]
        named(fs) == [i \in 1..Len(fs) |-> <<fs[i][1], Ref_of(fs[i][2], borrow, a)>>]
        pairs(ps) == [i \in 1..Len(ps) |->
                        <<Ref_of(ps[i][1], borrow, a), Ref_of(ps[i][2], borrow, a)>>]
    IN
    CASE x[1] = "unit" -> Ref_unit
      [] x[1] = "bool" -> Ref_bool(x[2])
      [] x[1] = "u8" -> Ref_u8(x[2])
      [] x[1] = "u16" -> Ref_u16(x[2])
      [] x[1] = "u32" -> Ref_u32(x[2])
      [] x[1] = "u64" -> Ref_u64(x[2])
      [] x[1] = "u128" -> Ref_u128(x[2])
      [] x[1] = "i8" -> Ref_i8(x[2])
      [] x[1] = "i16" -> Ref_i16(x[2])
      [] x[1] = "i32" -> Ref_i32(x[2])
      [] x[1] = "i64" -> Ref_i64(x[2])
      [] x[1] = "i128" -> Ref_i128(x[2])
      [] x[1] = "f32" -> Ref_f32(x[2])
      [] x[1] = "f64" -> Ref_f64(x[2])
      [] x[1] = "char" -> Ref_char(x[2])
      [] x[1] = "str" -> IF borrow THEN Ref_str(x[2], a) ELSE Ref_owned_str(x[2])
      [] x[1] = "bytes" -> IF borrow THEN Ref_bytes(x[2], a) ELSE Ref_owned_bytes(x[2])
      [] x[1] = "none" -> Ref_none
      [] x[1] = "some" -> Ref_some(Ref_of(x[2], borrow, a))
      [] x[1] = "unit_struct" -> Ref_unit_struct(x[2])
      [] x[1] = "unit_variant" -> Ref_unit_variant(x[2], x[3], x[4])
      [] x[1] = "newtype_struct" -> Ref_newtype_struct(x[2], Ref_of(x[3], borrow, a))
      [] x[1] = "newtype_variant" ->
            Ref_newtype_variant(x[2], x[3], x[4], Ref_of(x[5], borrow, a))
      [] x[1] = "seq" -> Ref_seq(kids(x[3]))
      [] x[1] = "tuple" -> Ref_tuple(kids(x[3]))
      [] x[1] = "tuple_struct" -> Ref_tuple_struct(x[2], kids(x[4]))
      [] x[1] = "tuple_variant" -> Ref_tuple_variant(x[2], x[3], x[4], kids(x[6]))
      [] x[1] = "struct" -> Ref_record_struct(x[2], named(x[4]))
      [] x[1] = "struct_variant" ->
            Ref_record_struct_variant(x[2], x[3], x[4], named(x[6]))
      [] x[1] = "map" -> Ref_map(pairs(MapPairs(x[3])[2]))

(***************************************************************************)
(* de.rs: the replay adapter. A visitor call is <<method, argument>>; a    *)
(* cursor or enum access handed to the visitor is a record of the struct's *)
(* fields.                                                                 *)
(***************************************************************************)
Deserializer(v) == <<"Deserializer", v>>

\* Seq::new
Seq_new(fs) == [remaining |-> fs]

\* Map::new; keys is the type K of the keys: "Value" or "&str"
Map_new(keys, fs) == [remaining |-> fs, value |-> None, keys |-> keys]

\* Map::new_str_key
Map_new_str_key(fs) == Map_new("&str", fs)

\* every scalar delivered through one visit method
VisitMethod_widened(tag) == "visit_u64"

\* the method of each scalar arm
VisitMethod(tag) ==
    CASE tag = "U8" -> "visit_u8" [] tag = "U16" -> "visit_u16"
      [] tag = "U32" -> "visit_u32" [] tag = "U64" -> "visit_u64"
      [] tag = "U128" -> "visit_u128" [] tag = "I8" -> "visit_i8"
      [] tag = "I16" -> "visit_i16" [] tag = "I32" -> "visit_i32"
      [] tag = "I64" -> "visit_i64" [] tag = "I128" -> "visit_i128"
      [] tag = "F32" -> "visit_f32" [] tag = "F64" -> "visit_f64"
      [] tag = "Bool" -> "visit_bool" [] tag = "Char" -> "visit_char"

Enum(variant_index, variant, v) ==
    [variant_index |-> variant_index, variant |-> variant, value |-> v]

Deserializer_deserialize_any(self) ==
    LET v == self[2]
    IN
    CASE v[1] \in ScalarTags -> <<VisitMethod(v[1]), v[2]>>
      [] v[1] = "Str" -> <<"visit_string", v[2]>>
      [] v[1] = "BorrowedStr" -> <<"visit_borrowed_str", v[2], v[3]>>
      [] v[1] = "Bytes" -> <<"visit_byte_buf", v[2]>>
      [] v[1] = "BorrowedBytes" -> <<"visit_borrowed_bytes", v[2], v[3]>>
      [] v[1] = "None" -> <<"visit_none">>
      [] v[1] = "Some" -> <<"visit_some", Deserializer(v[2])>>
      [] v[1] = "Unit" -> <<"visit_unit">>
      [] v[1] = "UnitStruct" -> <<"visit_unit">>
      [] v[1] = "NewtypeStruct" -> <<"visit_newtype_struct", Deserializer(v[3])>>
      [] v[1] = "Struct" -> <<"visit_map", Map_new_str_key(v[3])>>
      [] v[1] = "TupleStruct" -> <<"visit_seq", Seq_new(v[3])>>
      [] v[1] = "Tuple" -> <<"visit_seq", Seq_new(v[2])>>
      [] v[1] = "UnitVariant" ->
            <<"visit_enum", Enum(v[3], v[4], <<"Value", <<"Unit">>>>)>>
      [] v[1] = "NewtypeVariant" -> <<"visit_enum", Enum(v[3], v[4], <<"Value", v[5]>>)>>
      [] v[1] = "TupleVariant" -> <<"visit_enum", Enum(v[3], v[4], <<"Tuple", v[5]>>)>>
      [] v[1] = "StructVariant" -> <<"visit_enum", Enum(v[3], v[4], <<"Struct", v[5]>>)>>
      [] v[1] = "Seq" -> <<"visit_seq", Seq_new(v[2])>>
      [] v[1] = "Map" -> <<"visit_map", Map_new("Value", v[2])>>

\* the entry points of forward_to_deserialize_any!
Forwarded ==
    {"bool", "i8", "i16", "i32", "i64", "i128", "u8", "u16", "u32", "u64", "u128",
     "f32", "f64", "char", "str", "string", "bytes", "byte_buf", "option", "unit",
     "unit_struct", "newtype_struct", "seq", "tuple", "tuple_struct", "map",
     "struct", "enum", "identifier", "ignored_any"}

\* an entry point that coerces a stored integer to the requested u8
Deserializer_deserialize_coerced(entry, self) ==
    IF entry = "u8" /\ self[2][1] \in {"U16", "U32", "U64", "U128"}
    THEN <<"visit_u8", self[2][2]>>
    ELSE Deserializer_deserialize_any(self)

\* deserialize_<entry>(self, visitor): each forwards to deserialize_any
Deserializer_deserialize(entry, self) == Deserializer_deserialize_any(self)

\* an into_deserializer that copies a borrowed leaf into an owned one
Value_into_deserializer_copying(v) ==
    CASE v[1] = "BorrowedStr" -> Deserializer(<<"Str", v[2]>>)
      [] v[1] = "BorrowedBytes" -> Deserializer(<<"Bytes", v[2]>>)
      [] OTHER -> Deserializer(v)

\* IntoDeserializer for Value, Owned and Ref
Value_into_deserializer(v) == Deserializer(v)

Owned_into_deserializer(self) == Value_into_deserializer(Inner(self))

Ref_into_deserializer(self) == Value_into_deserializer(Inner(self))

\* k.into_deserializer() of a map key: a Value key gives a Deserializer, a
\* &str key gives serde's StrDeserializer
key_into_deserializer(keys, k) ==
    IF keys = "Value" THEN Value_into_deserializer(k) ELSE <<"StrDeserializer", k>>

\* a cursor that hands out its first element without moving past it
Seq_next_element_seed_peek(self) ==
    IF self.remaining = <<>> THEN [self |-> self, given |-> None, ret |-> Null]
    ELSE [self |-> self, given |-> Some(Deserializer(Head(self.remaining))),
          ret |-> Null]

\* A cursor method returns [self, given, ret]: the cursor after the call, the
\* deserializer handed to the seed (None when the seed is not called), and
\* the error returned without calling the seed (Null when there is none).
Seq_next_element_seed(self) ==
    IF self.remaining = <<>>
    THEN [self |-> self, given |-> None, ret |-> Null]
    ELSE [self |-> [self EXCEPT !.remaining = Tail(@)],
          given |-> Some(Deserializer(Head(self.remaining))), ret |-> Null]

\* a next_key_seed that keeps a value that is still pending
Map_next_key_seed_keeping(self) ==
    IF self.remaining = <<>>
    THEN [self |-> self, given |-> None, ret |-> Null]
    ELSE LET kv == Head(self.remaining)
         IN  [self |-> [self EXCEPT !.remaining = Tail(@),
                                    !.value = IF is_some(@) THEN @ ELSE Some(kv[2])],
              given |-> Some(key_into_deserializer(self.keys, kv[1])), ret |-> Null]

Map_next_key_seed(self) ==
    IF self.remaining = <<>>
    THEN [self |-> self, given |-> None, ret |-> Null]
    ELSE LET kv == Head(self.remaining)
         IN  [self |-> [self EXCEPT !.remaining = Tail(@), !.value = Some(kv[2])],
              given |-> Some(key_into_deserializer(self.keys, kv[1])), ret |-> Null]

\* a cursor that hands out the pending value without taking it
Map_next_value_seed_peek(self) ==
    IF ~is_some(self.value)
    THEN [self |-> self, given |-> None, ret |-> Err(custom("missing map value"))]
    ELSE [self |-> self, given |-> Some(Deserializer(self.value[1])), ret |-> Null]

Map_next_value_seed(self) ==
    IF ~is_some(self.value)
    THEN [self |-> self, given |-> None, ret |-> Err(custom("missing map value"))]
    ELSE [self |-> [self EXCEPT !.value = None],
          given |-> Some(Deserializer(self.value[1])), ret |-> Null]

\* a seed that is handed the variant name
Enum_variant_seed_by_name(self) == Deserializer(<<"Str", self.variant>>)

\* a seed that is always handed variant index 0
Enum_variant_seed_first(self) == Deserializer(<<"U32", 0>>)

\* EnumAccess::variant_seed: the deserializer handed to the seed
Enum_variant_seed(self) == Deserializer(<<"U32", self.variant_index>>)

\* the Display of serde's Unexpected
Unexpected_UnitVariant == "unit variant"

Unexpected_NewtypeVariant == "newtype variant"

Unexpected_TupleVariant == "tuple variant"

Unexpected_StructVariant == "struct variant"

Enum_unit_variant(self) ==
    CASE self.value = <<"Value", <<"Unit">>>> -> Ok(<<>>)
      [] self.value[1] = "Value" /\ self.value # <<"Value", <<"Unit">>>> ->
            Err(invalid_type(Unexpected_UnitVariant, "newtype variant"))
      [] self.value[1] = "Tuple" ->
            Err(invalid_type(Unexpected_UnitVariant, "tuple variant"))
      [] self.value[1] = "Struct" ->
            Err(invalid_type(Unexpected_UnitVariant, "struct variant"))

\* a newtype_variant_seed that hands a struct payload over as the tuple of its
\* values
Enum_newtype_variant_seed_values(self) ==
    CASE self.value[1] = "Value" -> Deserializer(self.value[2])
      [] self.value[1] = "Tuple" -> Deserializer(<<"Tuple", self.value[2]>>)
      [] self.value[1] = "Struct" ->
            Deserializer(<<"Tuple", [i \in DOMAIN self.value[2] |-> self.value[2][i][2]]>>)

\* the deserializer handed to the seed
Enum_newtype_variant_seed(self) ==
    CASE self.value[1] = "Value" -> Deserializer(self.value[2])
      [] self.value[1] = "Tuple" -> Deserializer(<<"Tuple", self.value[2]>>)
      [] self.value[1] = "Struct" ->
            Deserializer(<<"Struct", self.variant, self.value[2]>>)

\* a tuple_variant that takes every other payload for an empty tuple
Enum_tuple_variant_lenient(self) ==
    IF self.value[1] = "Tuple" THEN <<"visit_seq", Seq_new(self.value[2])>>
    ELSE <<"visit_seq", Seq_new(<<>>)>>

\* the visitor call made, or the error returned without calling the visitor
Enum_tuple_variant(self) ==
    CASE self.value[1] = "Tuple" -> <<"visit_seq", Seq_new(self.value[2])>>
      [] self.value = <<"Value", <<"Unit">>>> ->
            Err(invalid_type(Unexpected_UnitVariant, "tuple variant"))
      [] self.value[1] = "Value" /\ self.value # <<"Value", <<"Unit">>>> ->
            Err(invalid_type(Unexpected_NewtypeVariant, "tuple variant"))
      [] self.value[1] = "Struct" ->
            Err(invalid_type(Unexpected_StructVariant, "tuple variant"))

\* a struct_variant that reports every payload stored as a value, Unit
\* included, as a newtype variant
Enum_struct_variant_wrapping(self) ==
    CASE self.value[1] = "Struct" -> <<"visit_map", Map_new_str_key(self.value[2])>>
      [] self.value[1] = "Value" ->
            Err(invalid_type(Unexpected_NewtypeVariant, "struct variant"))
      [] self.value[1] = "Tuple" ->
            Err(invalid_type(Unexpected_TupleVariant, "struct variant"))

Enum_struct_variant(self) ==
    CASE self.value[1] = "Struct" -> <<"visit_map", Map_new_str_key(self.value[2])>>
      [] self.value = <<"Value", <<"Unit">>>> ->
            Err(invalid_type(Unexpected_UnitVariant, "struct variant"))
      [] self.value[1] = "Value" /\ self.value # <<"Value", <<"Unit">>>> ->
            Err(invalid_type(Unexpected_NewtypeVariant, "struct variant"))
      [] self.value[1] = "Tuple" ->
            Err(invalid_type(Unexpected_TupleVariant, "struct variant"))

(***************************************************************************)
(* The typed values under test.                                            *)
(***************************************************************************)
\* a declared length above the capacity cap
BigHint == 40

ScalarT ==
    {<<"bool", TRUE>>, <<"char", "a">>, <<"u8", 1>>, <<"u8", 255>>, <<"u16", 1>>,
     <<"u32", 1>>, <<"u64", 1>>, <<"u128", 1>>, <<"i8", -1>>, <<"i16", -1>>,
     <<"i32", -1>>, <<"i64", -1>>, <<"i128", -1>>, <<"f32", 1>>, <<"f64", 1>>}

LeafT ==
    ScalarT \cup
    {<<"unit">>, <<"none">>, <<"str", "a string">>, <<"bytes", <<97, 32>>>>,
     <<"unit_struct", "UnitStruct">>, <<"unit_variant", "Enum", 0, "UnitVariant">>,
     <<"custom", "failed">>}

\* the children of a composite value
Kids == {<<"unit">>, <<"u8", 1>>, <<"str", "a">>, <<"custom", "failed">>}

\* the children of a value nested two deep
Kids2 ==
    {<<"some", <<"none">>>>, <<"some", <<"u8", 1>>>>,
     <<"seq", Some(1), <<<<"bytes", <<97, 32>>>>>>>>,
     <<"tuple", 2, <<<<"unit">>, <<"str", "a">>>>>>,
     <<"struct", "Struct", 2, <<<<"a", <<"unit">>>>, <<"b", <<"unit">>>>>>>>,
     <<"newtype_variant", "Enum", 1, "NewtypeVariant", <<"unit">>>>,
     <<"tuple_variant", "Enum", 2, "TupleVariant", 2, <<<<"unit">>, <<"unit">>>>>>,
     <<"struct_variant", "Enum", 3, "StructVariant", 1, <<<<"a", <<"u8", 1>>>>>>>>,
     <<"map", Some(1), <<<<"key", <<"str", "a">>>>, <<"value", <<"unit">>>>>>>>,
     <<"newtype_struct", "NewtypeStruct", <<"custom", "failed">>>>}

\* the declared lengths tried for children ks: the true one and a wrong one
Lens(ks) == {Len(ks), BigHint}

Hints(ks) == {None, Some(Len(ks)), Some(BigHint)}

FieldNames == {"a", "b"}

\* the map calls a typed value makes
MapCalls(K) ==
    {<<"key", k>> : k \in K} \cup {<<"value", k>> : k \in K}
        \cup {<<"entry", k, k>> : k \in K}

Composite(K, n) ==
    {<<"some", k>> : k \in K}
    \cup {<<"newtype_struct", "NewtypeStruct", k>> : k \in K}
    \cup {<<"newtype_variant", "Enum", 1, "NewtypeVariant", k>> : k \in K}
    \cup UNION {{<<"seq", h, ks>> : h \in Hints(ks)} : ks \in SeqsUpTo(K, n)}
    \cup UNION {{<<"tuple", l, ks>> : l \in Lens(ks)} : ks \in SeqsUpTo(K, n)}
    \cup UNION {{<<"tuple_struct", "TupleStruct", l, ks>> : l \in Lens(ks)} :
                   ks \in SeqsUpTo(K, n)}
    \cup UNION {{<<"tuple_variant", "Enum", 2, "TupleVariant", l, ks>> : l \in Lens(ks)} :
                   ks \in SeqsUpTo(K, n)}
    \cup UNION {{<<"struct", "Struct", l, fs>> : l \in Lens(fs)} :
                   fs \in SeqsUpTo(FieldNames \X K, n)}
    \cup UNION {{<<"struct_variant", "Enum", 3, "StructVariant", l, fs>> : l \in Lens(fs)} :
                   fs \in SeqsUpTo(FieldNames \X K, n)}

Maps(K, n) ==
    UNION {{<<"map", h, cs>> : h \in {None, Some(Len(cs))}} :
             cs \in SeqsUpTo(MapCalls(K), n)}

Inputs ==
    LeafT \cup Composite(Kids, MaxLen) \cup Composite(Kids2, 1)
        \cup Maps({<<"unit">>, <<"str", "a">>}, MaxCalls)
        \cup Maps({<<"unit">>, <<"custom", "failed">>}, 2)
        \cup Maps({<<"some", <<"u8", 1>>>>, <<"seq", None, <<>>>>}, 2)
        \cup {<<"some", <<"none">>>>}
        \cup {<<"seq", h, [i \in 1..CapacityCap + 1 |-> <<"unit">>]>> : h \in {None, Some(2)}}

(***************************************************************************)
(* lib.rs tests: the typed targets. A type is <<name, parameters>>; the    *)
(* value a target decodes is written as the typed value it equals, with    *)
(* true length hints and maps as key and value calls.                      *)
(***************************************************************************)
IntTypes == {"u8", "u16", "u32", "u64", "u128", "i8", "i16", "i32", "i64", "i128"}

FloatTypes == {"f32", "f64"}

IntVisits ==
    {"visit_u8", "visit_u16", "visit_u32", "visit_u64", "visit_u128", "visit_i8",
     "visit_i16", "visit_i32", "visit_i64", "visit_i128"}

\* whether an integer fits the narrow integer types (the wide ones hold
\* every integer of the model)
Fits(ty, v) ==
    CASE ty = "u8" -> v \in 0..255
      [] ty = "i8" -> v \in -128..127
      [] ty = "u16" -> v \in 0..65535
      [] ty = "i16" -> v \in -32768..32767
      [] ty \in {"u32", "u64", "u128"} -> v >= 0
      [] OTHER -> TRUE

\* whether all elements of a sequence are the same
AllSame(xs) == \A i \in 1..Len(xs) : xs[i] = xs[1]

\* mode is how the target holds strings and bytes: "Cow" (the tests' Str and
\* Bytes) or "&" (a borrowing &'de str / &'de [u8], as MyData.content)
RECURSIVE TypeOf(_, _)
TypeOf(x, mode) ==
    LET tys(xs) == [i \in 1..Len(xs) |-> TypeOf(xs[i], mode)]
        ftys(fs) == [i \in 1..Len(fs) |-> <<fs[i][1], TypeOf(fs[i][2], mode)>>]
        ps == MapPairs(x[3])[2]
    IN
    CASE x[1] = "unit" -> <<"()">>
      [] x[1] \in IntTypes \cup FloatTypes \cup {"bool", "char"} -> <<x[1]>>
      [] x[1] = "str" -> IF mode = "Cow" THEN <<"Str">> ELSE <<"&str">>
      [] x[1] = "bytes" -> IF mode = "Cow" THEN <<"Bytes">> ELSE <<"&[u8]">>
      [] x[1] = "none" -> <<"Option", <<"()">>>>
      [] x[1] = "some" -> <<"Option", TypeOf(x[2], mode)>>
      [] x[1] = "unit_struct" -> <<"UnitStruct", x[2]>>
      [] x[1] = "newtype_struct" -> <<"NewtypeStruct", x[2], TypeOf(x[3], mode)>>
      [] x[1] = "tuple" -> <<"Tuple", tys(x[3])>>
      [] x[1] = "tuple_struct" -> <<"TupleStruct", x[2], tys(x[4])>>
      [] x[1] = "struct" -> <<"Struct", x[2], ftys(x[4])>>
      [] x[1] = "unit_variant" -> <<"Enum", x[2], x[3], x[4], "unit", <<>>>>
      [] x[1] = "newtype_variant" ->
            <<"Enum", x[2], x[3], x[4], "newtype", TypeOf(x[5], mode)>>
      [] x[1] = "tuple_variant" -> <<"Enum", x[2], x[3], x[4], "tuple", tys(x[6])>>
      [] x[1] = "struct_variant" -> <<"Enum", x[2], x[3], x[4], "struct", ftys(x[6])>>
      [] x[1] = "seq" ->
            <<"Vec", IF x[3] = <<>> THEN <<"()">> ELSE TypeOf(x[3][1], mode)>>
      [] x[1] = "map" ->
            IF ps = <<>> THEN <<"Map", <<"Str">>, <<"()">>>>
            ELSE <<"Map", TypeOf(ps[1][1], mode), TypeOf(ps[1][2], mode)>>

\* whether a typed value is one a typed target can equal: a logical value
\* with true length hints, maps made of key and value calls, distinct field
\* names, and elements of one type
RECURSIVE IsTyped(_)
IsTyped(x) ==
    LET all(xs) == \A i \in 1..Len(xs) : IsTyped(xs[i])
        fall(fs) ==
            /\ \A i \in 1..Len(fs) : IsTyped(fs[i][2])
            /\ \A i, j \in 1..Len(fs) : fs[i][1] = fs[j][1] => i = j
        same(xs) == AllSame([i \in 1..Len(xs) |-> TypeOf(xs[i], "Cow")])
    IN
    CASE x[1] = "custom" -> FALSE
      [] x[1] = "some" -> IsTyped(x[2])
      [] x[1] = "newtype_struct" -> IsTyped(x[3])
      [] x[1] = "newtype_variant" -> IsTyped(x[5])
      [] x[1] = "tuple" -> x[2] = Len(x[3]) /\ all(x[3])
      [] x[1] = "seq" -> x[2] = Some(Len(x[3])) /\ all(x[3]) /\ same(x[3])
      [] x[1] = "tuple_struct" -> x[3] = Len(x[4]) /\ all(x[4])
      [] x[1] = "tuple_variant" -> x[5] = Len(x[6]) /\ all(x[6])
      [] x[1] = "struct" -> x[3] = Len(x[4]) /\ fall(x[4])
      [] x[1] = "struct_variant" -> x[5] = Len(x[6]) /\ fall(x[6])
      [] x[1] = "map" ->
            /\ \A i \in 1..Len(x[3]) : x[3][i][1] # "entry"
            /\ MapPairs(x[3]) # Null
            /\ x[2] = Some(Len(MapPairs(x[3])[2]))
            /\ \A i \in 1..Len(x[3]) : IsTyped(x[3][i][2])
            /\ same([i \in 1..Len(x[3]) |-> IF i % 2 = 1 THEN x[3][i][2] ELSE x[3][1][2]])
            /\ same([i \in 1..Len(x[3]) |-> IF i % 2 = 0 THEN x[3][i][2] ELSE x[3][2][2]])
      [] OTHER -> TRUE

\* whether a type borrows a string or bytes from the input
RECURSIVE Borrows(_)
Borrows(ty) ==
    CASE ty[1] \in {"&str", "&[u8]"} -> TRUE
      [] ty[1] = "Option" -> Borrows(ty[2])
      [] ty[1] = "NewtypeStruct" -> Borrows(ty[3])
      [] ty[1] = "Vec" -> Borrows(ty[2])
      [] ty[1] = "Map" -> Borrows(ty[2]) \/ Borrows(ty[3])
      [] ty[1] = "Tuple" -> \E i \in 1..Len(ty[2]) : Borrows(ty[2][i])
      [] ty[1] = "TupleStruct" -> \E i \in 1..Len(ty[3]) : Borrows(ty[3][i])
      [] ty[1] = "Struct" -> \E i \in 1..Len(ty[3]) : Borrows(ty[3][i][2])
      [] ty[1] = "Enum" /\ ty[5] = "newtype" -> Borrows(ty[6])
      [] ty[1] = "Enum" /\ ty[5] = "tuple" -> \E i \in 1..Len(ty[6]) : Borrows(ty[6][i])
      [] ty[1] = "Enum" /\ ty[5] = "struct" ->
            \E i \in 1..Len(ty[6]) : Borrows(ty[6][i][2])
      [] OTHER -> FALSE

\* the entry point a type's Deserialize impl calls
EntryOf(ty) ==
    CASE ty[1] = "()" -> "unit"
      [] ty[1] \in IntTypes \cup FloatTypes \cup {"bool", "char"} -> ty[1]
      [] ty[1] \in {"Str", "&str"} -> "str"
      [] ty[1] \in {"Bytes", "&[u8]"} -> "bytes"
      [] ty[1] = "Option" -> "option"
      [] ty[1] = "UnitStruct" -> "unit_struct"
      [] ty[1] = "NewtypeStruct" -> "newtype_struct"
      [] ty[1] = "Tuple" -> "tuple"
      [] ty[1] = "TupleStruct" -> "tuple_struct"
      [] ty[1] = "Struct" -> "struct"
      [] ty[1] = "Enum" -> "enum"
      [] ty[1] = "Vec" -> "seq"
      [] ty[1] = "Map" -> "map"

\* the visitor call a deserializer makes for an entry point
VisitOf(entry, d) ==
    IF d[1] = "StrDeserializer" THEN <<"visit_str", d[2]>>
    ELSE Deserializer_deserialize(entry, d)

\* the visitor's own type error
Unexpected(visit, ty) == Err(<<"invalid type: ", visit[1], ", expected ", ty[1]>>)

RECURSIVE Deserialize(_, _)

\* a tuple visitor: one next_element per declared element
RECURSIVE VisitElements(_, _, _)
VisitElements(tys, seq, acc) ==
    IF tys = <<>> THEN Ok(acc)
    ELSE LET s == Seq_next_element_seed(seq)
         IN  IF ~is_some(s.given) THEN Err(<<"invalid length">>)
             ELSE LET r == Deserialize(Head(tys), s.given[1])
                  IN  IF IsErr(r) THEN r
                      ELSE VisitElements(Tail(tys), s.self, Append(acc, r[2]))

\* a Vec visitor: next_element until the cursor is exhausted
RECURSIVE VisitAll(_, _, _)
VisitAll(ty, seq, acc) ==
    LET s == Seq_next_element_seed(seq)
    IN  IF ~is_some(s.given) THEN Ok(acc)
        ELSE LET r == Deserialize(ty, s.given[1])
             IN  IF IsErr(r) THEN r ELSE VisitAll(ty, s.self, Append(acc, r[2]))

\* tests::MapVisitor: while let Some(k) = map.next_key()? { map.next_value()? }
RECURSIVE VisitEntries(_, _, _, _)
VisitEntries(kty, vty, map, acc) ==
    LET s == Map_next_key_seed(map)
    IN  IF ~is_some(s.given) THEN Ok(acc)
        ELSE LET k == Deserialize(kty, s.given[1])
                 n == Map_next_value_seed(s.self)
             IN  IF IsErr(k) THEN k
                 ELSE IF n.ret # Null THEN n.ret
                 ELSE LET v == Deserialize(vty, n.given[1])
                      IN  IF IsErr(v) THEN v
                          ELSE VisitEntries(kty, vty, n.self,
                                   acc \o <<<<"key", k[2]>>, <<"value", v[2]>>>>)

\* the type of a named field, Null when the struct has no such field
FieldType(ftys, name) ==
    IF \E i \in 1..Len(ftys) : ftys[i][1] = name
    THEN (CHOOSE f \in {ftys[i] : i \in 1..Len(ftys)} : f[1] = name)[2]
    ELSE Null

\* a derived struct visitor: each key is decoded as a field identifier, its
\* value against the field's type; got maps the fields seen to their values
RECURSIVE VisitFields(_, _, _)
VisitFields(ftys, map, got) ==
    LET s == Map_next_key_seed(map)
    IN  IF ~is_some(s.given)
        THEN IF \A i \in 1..Len(ftys) : \E g \in got : g[1] = ftys[i][1]
             THEN Ok([i \in 1..Len(ftys) |->
                        CHOOSE g \in got : g[1] = ftys[i][1]])
             ELSE Err(<<"missing field">>)
        ELSE LET ident == VisitOf("identifier", s.given[1])
                 name == ident[2]
                 n == Map_next_value_seed(s.self)
             IN  IF ident[1] \notin {"visit_str", "visit_string", "visit_borrowed_str"}
                 THEN Unexpected(ident, <<"field identifier">>)
                 ELSE IF \E g \in got : g[1] = name THEN Err(<<"duplicate field">>)
                 ELSE IF n.ret # Null THEN n.ret
                 ELSE IF FieldType(ftys, name) = Null
                 THEN VisitFields(ftys, n.self, got)
                 ELSE LET v == Deserialize(FieldType(ftys, name), n.given[1])
                      IN  IF IsErr(v) THEN v
                          ELSE VisitFields(ftys, n.self, got \cup {<<name, v[2]>>})

\* a derived enum visitor: the variant is identified by decoding the seed's
\* deserializer, then the payload is decoded by the variant's kind
VisitEnum(ty, e) ==
    LET ident == VisitOf("identifier", Enum_variant_seed(e))
        kind == ty[5]
    IN  IF ident[1] \notin IntVisits THEN Unexpected(ident, <<"variant identifier">>)
        ELSE IF ident[2] # ty[3] THEN Err(<<"unknown variant">>)
        ELSE CASE kind = "unit" ->
                    LET r == Enum_unit_variant(e)
                    IN  IF IsErr(r) THEN r
                        ELSE Ok(<<"unit_variant", ty[2], ty[3], ty[4]>>)
               [] kind = "newtype" ->
                    LET r == Deserialize(ty[6], Enum_newtype_variant_seed(e))
                    IN  IF IsErr(r) THEN r
                        ELSE Ok(<<"newtype_variant", ty[2], ty[3], ty[4], r[2]>>)
               [] kind = "tuple" ->
                    LET c == Enum_tuple_variant(e)
                        r == VisitElements(ty[6], c[2], <<>>)
                    IN  IF IsErr(c) THEN c
                        ELSE IF IsErr(r) THEN r
                        ELSE Ok(<<"tuple_variant", ty[2], ty[3], ty[4], Len(r[2]), r[2]>>)
               [] kind = "struct" ->
                    LET c == Enum_struct_variant(e)
                        r == VisitFields(ty[6], c[2], {})
                    IN  IF IsErr(c) THEN c
                        ELSE IF IsErr(r) THEN r
                        ELSE Ok(<<"struct_variant", ty[2], ty[3], ty[4], Len(r[2]), r[2]>>)

\* T::deserialize(d): the visitor of type ty receives the call d makes
Deserialize(ty, d) ==
    LET visit == VisitOf(EntryOf(ty), d)
        m == visit[1]
    IN
    CASE ty[1] = "()" /\ m = "visit_unit" -> Ok(<<"unit">>)
      [] ty[1] \in IntTypes /\ m \in IntVisits /\ Fits(ty[1], visit[2]) ->
            Ok(<<ty[1], visit[2]>>)
      [] ty[1] \in FloatTypes /\ m \in IntVisits \cup {"visit_f32", "visit_f64"} ->
            Ok(<<ty[1], visit[2]>>)
      [] ty[1] = "bool" /\ m = "visit_bool" -> Ok(<<"bool", visit[2]>>)
      [] ty[1] = "char" /\ m = "visit_char" -> Ok(<<"char", visit[2]>>)
      [] ty[1] = "Str" /\ m \in {"visit_str", "visit_string", "visit_borrowed_str"} ->
            Ok(<<"str", visit[2]>>)
      [] ty[1] = "&str" /\ m = "visit_borrowed_str" -> Ok(<<"str", visit[2]>>)
      [] ty[1] = "Bytes" /\ m \in {"visit_bytes", "visit_byte_buf",
                                    "visit_borrowed_bytes"} ->
            Ok(<<"bytes", visit[2]>>)
      [] ty[1] = "&[u8]" /\ m = "visit_borrowed_bytes" -> Ok(<<"bytes", visit[2]>>)
      [] ty[1] = "Option" /\ m \in {"visit_none", "visit_unit"} -> Ok(<<"none">>)
      [] ty[1] = "Option" /\ m = "visit_some" ->
            LET r == Deserialize(ty[2], visit[2])
            IN  IF IsErr(r) THEN r ELSE Ok(<<"some", r[2]>>)
      [] ty[1] = "UnitStruct" /\ m = "visit_unit" -> Ok(<<"unit_struct", ty[2]>>)
      [] ty[1] = "NewtypeStruct" /\ m = "visit_newtype_struct" ->
            LET r == Deserialize(ty[3], visit[2])
            IN  IF IsErr(r) THEN r ELSE Ok(<<"newtype_struct", ty[2], r[2]>>)
      [] ty[1] = "Tuple" /\ m = "visit_seq" ->
            LET r == VisitElements(ty[2], visit[2], <<>>)
            IN  IF IsErr(r) THEN r ELSE Ok(<<"tuple", Len(r[2]), r[2]>>)
      [] ty[1] = "TupleStruct" /\ m = "visit_seq" ->
            LET r == VisitElements(ty[3], visit[2], <<>>)
            IN  IF IsErr(r) THEN r ELSE Ok(<<"tuple_struct", ty[2], Len(r[2]), r[2]>>)
      [] ty[1] = "Struct" /\ m = "visit_map" ->
            LET r == VisitFields(ty[3], visit[2], {})
            IN  IF IsErr(r) THEN r ELSE Ok(<<"struct", ty[2], Len(r[2]), r[2]>>)
      [] ty[1] = "Enum" /\ m = "visit_enum" -> VisitEnum(ty, visit[2])
      [] ty[1] = "Vec" /\ m = "visit_seq" ->
            LET r == VisitAll(ty[2], visit[2], <<>>)
            IN  IF IsErr(r) THEN r ELSE Ok(<<"seq", Some(Len(r[2])), r[2]>>)
      [] ty[1] = "Map" /\ m = "visit_map" ->
            LET r == VisitEntries(ty[2], ty[3], visit[2], <<>>)
            IN  IF IsErr(r) THEN r ELSE Ok(<<"map", Some(Len(r[2]) \div 2), r[2]>>)
      [] OTHER -> Unexpected(visit, ty)

(***************************************************************************)
(* lib.rs tests::test_case, one action per statement.                      *)
(***************************************************************************)
SerIdle ==
    /\ t = Null /\ t_to_owned = Null /\ ref_buf = Null /\ t_tokens = Null
    /\ owned_tokens = Null /\ ref_tokens = Null /\ conv = Null /\ target = Null
    /\ owned_to_t = Null /\ ref_to_t = Null

MapIdle == key = Null /\ fields = Null /\ capacity = Null

DeIdle ==
    /\ de = Null /\ requested = Null /\ visited = Null /\ remaining = Null
    /\ value = Null /\ cursor = Null /\ enum = Null /\ depth = 0

Init ==
    /\ t \in Inputs
    /\ t_to_owned = Null /\ ref_buf = Null /\ t_tokens = Null
    /\ owned_tokens = Null /\ ref_tokens = Null /\ conv = Null /\ target = Null
    /\ owned_to_t = Null /\ ref_to_t = Null
    /\ MapIdle /\ DeIdle /\ ret = Null /\ log = Null

\* serde_test::assert_ser_tokens(&t.value, ..): t drives the recording encoder
SerializeT ==
    /\ t_tokens = Null
    /\ t_tokens' = T_tokens(t)
    /\ UNCHANGED <<t, t_to_owned, ref_buf, owned_tokens, ref_tokens, conv, target,
                   owned_to_t, ref_to_t, mapVars, deVars, ret, log>>

\* t.value.serialize(Serializer::new())
Buffer ==
    /\ t_tokens # Null /\ t_to_owned = Null
    /\ t_to_owned' = Owned_buffer(t)
    /\ UNCHANGED <<t, ref_buf, t_tokens, owned_tokens, ref_tokens, conv, target,
                   owned_to_t, ref_to_t, mapVars, deVars, ret, log>>

\* the Ref buffer the test builds by hand for the same value
BuildRef ==
    /\ t_to_owned # Null /\ ref_buf = Null
    /\ IsLogical(t)
    /\ \E borrow \in BOOLEAN, a \in Lifetimes : ref_buf' = Ref_of(t, borrow, a)
    /\ UNCHANGED <<t, t_to_owned, t_tokens, owned_tokens, ref_tokens, conv, target,
                   owned_to_t, ref_to_t, mapVars, deVars, ret, log>>

\* serde_test::assert_ser_tokens(&ref_buf.value, ..)
SerializeRef ==
    /\ ref_buf # Null /\ ref_tokens = Null
    /\ ref_tokens' = Ref_serialize(ref_buf)
    /\ UNCHANGED <<t, t_to_owned, ref_buf, t_tokens, owned_tokens, conv, target,
                   owned_to_t, ref_to_t, mapVars, deVars, ret, log>>

\* serde_test::assert_ser_tokens(&t_to_owned.value, ..)
SerializeOwned ==
    /\ IsOk(t_to_owned) /\ owned_tokens = Null
    /\ owned_tokens' = Owned_serialize(t_to_owned[2])
    /\ UNCHANGED <<t, t_to_owned, ref_buf, t_tokens, ref_tokens, conv, target,
                   owned_to_t, ref_to_t, mapVars, deVars, ret, log>>

\* Owned::from(Ref::from(owned))
ConvertOwned ==
    /\ IsOk(t_to_owned) /\ owned_tokens # Null /\ conv = Null
    /\ conv' = <<"Owned", t_to_owned[2], Ref_from(t_to_owned[2]),
                 Owned_from(Ref_from(t_to_owned[2]))>>
    /\ UNCHANGED <<t, t_to_owned, ref_buf, t_tokens, owned_tokens, ref_tokens, target,
                   owned_to_t, ref_to_t, mapVars, deVars, ret, log>>

\* Ref::from(Owned::from(ref_buf)), for a Ref<'static>
ConvertRef ==
    /\ ref_buf # Null /\ ref_tokens # Null /\ conv = Null
    /\ IsStatic(Inner(ref_buf))
    /\ conv' = <<"Ref", ref_buf, Owned_from(ref_buf), Ref_from(Owned_from(ref_buf))>>
    /\ UNCHANGED <<t, t_to_owned, ref_buf, t_tokens, owned_tokens, ref_tokens, target,
                   owned_to_t, ref_to_t, mapVars, deVars, ret, log>>

\* T::deserialize(t_to_owned.into_deserializer()), for a target type T that
\* holds its strings and bytes as mode says
DeserializeOwned ==
    /\ IsOk(t_to_owned) /\ owned_to_t = Null
    /\ IsTyped(t)
    /\ \E mode \in {"Cow", "&"} :
          /\ target' = TypeOf(t, mode)
          /\ owned_to_t' = Deserialize(TypeOf(t, mode),
                                       Owned_into_deserializer(t_to_owned[2]))
    /\ UNCHANGED <<t, t_to_owned, ref_buf, t_tokens, owned_tokens, ref_tokens, conv,
                   ref_to_t, mapVars, deVars, ret, log>>

\* T::deserialize(ref_buf.into_deserializer())
DeserializeRef ==
    /\ ref_buf # Null /\ target # Null /\ ref_to_t = Null
    /\ ref_to_t' = Deserialize(target, Ref_into_deserializer(ref_buf))
    /\ UNCHANGED <<t, t_to_owned, ref_buf, t_tokens, owned_tokens, ref_tokens, conv,
                   target, owned_to_t, mapVars, deVars, ret, log>>

Next ==
    \/ SerializeT
    \/ Buffer
    \/ BuildRef
    \/ SerializeRef
    \/ SerializeOwned
    \/ ConvertOwned
    \/ ConvertRef
    \/ DeserializeOwned
    \/ DeserializeRef

Spec == Init /\ [][Next]_vars

(***************************************************************************)
(* ser.rs: the SerializeMap builder driven call by call, in any order.     *)
(* log keeps, for each call, the method, its arguments, whether a key was  *)
(* staged when it was made, and what it returned.                          *)
(***************************************************************************)
MapKeys == {<<"u8", 1>>, <<"custom", "failed">>}

MapVals == {<<"unit">>, <<"custom", "failed">>}

MapHints == {None, Some(2), Some(BigHint)}

\* the builder the variables hold
self_map == [kind |-> "SerializeMap", capacity |-> capacity, key |-> key,
             fields |-> fields]

Called(op, k, v, r) ==
    Append(log, [op |-> op, k |-> k, v |-> v, staged |-> is_some(key), ret |-> r])

\* end(self) consumes the builder
Ended == log # <<>> /\ log[Len(log)].op = "end"

InitMap ==
    /\ \E len \in MapHints :
          LET b == Serializer_serialize_map(len)[2]
          IN  key = b.key /\ fields = b.fields /\ capacity = b.capacity
    /\ ret = Null /\ log = <<>>
    /\ SerIdle /\ DeIdle

serialize_key ==
    /\ ~Ended /\ Len(log) < MaxCalls
    /\ \E k \in MapKeys :
          LET s == SerializeMap_serialize_key(self_map, k)
          IN  /\ key' = s.self.key /\ fields' = s.self.fields
              /\ ret' = s.ret
              /\ log' = Called("serialize_key", k, Null, s.ret)
    /\ UNCHANGED <<serVars, deVars, capacity>>

serialize_value ==
    /\ ~Ended /\ Len(log) < MaxCalls
    /\ \E v \in MapVals :
          LET s == SerializeMap_serialize_value(self_map, v)
          IN  /\ key' = s.self.key /\ fields' = s.self.fields
              /\ ret' = s.ret
              /\ log' = Called("serialize_value", Null, v, s.ret)
    /\ UNCHANGED <<serVars, deVars, capacity>>

serialize_entry ==
    /\ ~Ended /\ Len(log) < MaxCalls
    /\ \E k \in MapKeys, v \in MapVals :
          LET s == SerializeMap_serialize_entry(self_map, k, v)
          IN  /\ key' = s.self.key /\ fields' = s.self.fields
              /\ ret' = s.ret
              /\ log' = Called("serialize_entry", k, v, s.ret)
    /\ UNCHANGED <<serVars, deVars, capacity>>

end ==
    /\ ~Ended
    /\ ret' = SerializeMap_end(self_map)
    /\ log' = Called("end", Null, Null, SerializeMap_end(self_map))
    /\ UNCHANGED <<serVars, deVars, key, fields, capacity>>

NextMap ==
    \/ serialize_key
    \/ serialize_value
    \/ serialize_entry
    \/ end

SpecMap == InitMap /\ [][NextMap]_vars

(***************************************************************************)
(* de.rs: a buffer decoded by a visitor that makes any calls in any order. *)
(* log keeps, for each call on a cursor or enum access, the method, the    *)
(* deserializer it handed to the caller's seed (None when the seed was not *)
(* called) and what the call returned.                                     *)
(***************************************************************************)
\* the typed values whose hand-built buffers are decoded
DeInputs ==
    {x \in LeafT \cup Kids2 \cup Composite({<<"unit">>, <<"str", "a">>}, MaxLen)
            \cup Maps({<<"str", "a">>, <<"u8", 1>>}, 2) : IsLogical(x)}
    \cup {<<"map", None, <<<<"key", <<"str", "a">>>>, <<"value", <<"unit">>>>,
                          <<"key", <<"u8", 1>>>>, <<"value", <<"none">>>>>>>>,
          <<"some", <<"tuple", 2, <<<<"unit">>, <<"str", "a">>>>>>>>,
          <<"newtype_variant", "Enum", 1, "NewtypeVariant",
            <<"seq", Some(1), <<<<"bytes", <<97, 32>>>>>>>>>>}

DeBuffers == {Inner(Ref_of(x, b, "a")) : x \in DeInputs, b \in BOOLEAN}

\* what a seed returns: the value it decoded from the deserializer it was
\* given, or its own error
Seeded(d) == <<"from", d>>

SeedError == <<"seed failed">>

SeedFailed == log # <<>> /\ log[Len(log)].ret = Err(SeedError)

\* the entry points after which the visitor drives the cursor it was given
Driving == {"any", "seq", "map", "struct", "enum"}

Pulled(op, given, r) == Append(log, [op |-> op, given |-> given, ret |-> r])

\* the return of a cursor call that hands `given` to a seed
SeedResult(given, seed_ok) ==
    IF ~is_some(given) THEN Ok(None)
    ELSE IF seed_ok THEN Ok(Some(Seeded(given[1]))) ELSE Err(SeedError)

InitDe ==
    /\ de \in {Value_into_deserializer(v) : v \in DeBuffers}
    /\ requested = Null /\ visited = Null /\ remaining = Null /\ value = Null
    /\ cursor = Null /\ enum = Null /\ depth = 0
    /\ ret = Null /\ log = <<>>
    /\ SerIdle /\ MapIdle

\* the visitor is handed a cursor or an enum access
Hand(visit) ==
    /\ cursor' = CASE visit[1] = "visit_seq" -> <<"Seq">>
                    [] visit[1] = "visit_map" -> <<"Map", visit[2].keys>>
                    [] OTHER -> cursor
    /\ remaining' = IF visit[1] \in {"visit_seq", "visit_map"}
                     THEN visit[2].remaining ELSE remaining
    /\ value' = IF visit[1] = "visit_map" THEN visit[2].value ELSE value
    /\ enum' = IF visit[1] = "visit_enum" THEN visit[2] ELSE enum

deserialize ==
    /\ visited = Null
    /\ \E entry \in Forwarded \cup {"any"} :
          LET visit == IF entry = "any" THEN Deserializer_deserialize_any(de)
                       ELSE Deserializer_deserialize(entry, de)
          IN  /\ requested' = entry
              /\ visited' = visit
              /\ Hand(visit)
    /\ UNCHANGED <<serVars, mapVars, de, depth, ret, log>>

CanPull ==
    /\ requested \in Driving /\ Len(log) < MaxPulls /\ ~SeedFailed

next_element_seed ==
    /\ CanPull /\ cursor = <<"Seq">>
    /\ \E seed_ok \in BOOLEAN :
          LET s == Seq_next_element_seed([remaining |-> remaining])
          IN  /\ remaining' = s.self.remaining
              /\ ret' = SeedResult(s.given, seed_ok)
              /\ log' = Pulled("next_element_seed", s.given, SeedResult(s.given, seed_ok))
    /\ UNCHANGED <<serVars, mapVars, de, requested, visited, value, cursor, enum, depth>>

\* the Map cursor the variables hold
self_cursor == [remaining |-> remaining, value |-> value, keys |-> cursor[2]]

next_key_seed ==
    /\ CanPull /\ cursor # Null /\ cursor[1] = "Map"
    /\ \E seed_ok \in BOOLEAN :
          LET s == Map_next_key_seed(self_cursor)
          IN  /\ remaining' = s.self.remaining /\ value' = s.self.value
              /\ ret' = SeedResult(s.given, seed_ok)
              /\ log' = Pulled("next_key_seed", s.given, SeedResult(s.given, seed_ok))
    /\ UNCHANGED <<serVars, mapVars, de, requested, visited, cursor, enum, depth>>

next_value_seed ==
    /\ CanPull /\ cursor # Null /\ cursor[1] = "Map"
    /\ \E seed_ok \in BOOLEAN :
          LET s == Map_next_value_seed(self_cursor)
              r == IF s.ret # Null THEN s.ret
                   ELSE IF seed_ok THEN Ok(Seeded(s.given[1])) ELSE Err(SeedError)
          IN  /\ remaining' = s.self.remaining /\ value' = s.self.value
              /\ ret' = r
              /\ log' = Pulled("next_value_seed", s.given, r)
    /\ UNCHANGED <<serVars, mapVars, de, requested, visited, cursor, enum, depth>>

\* EnumAccess::variant_seed, the first call on the enum access
variant_seed ==
    /\ CanPull /\ enum # Null /\ log = <<>>
    /\ \E seed_ok \in BOOLEAN :
          LET given == Some(Enum_variant_seed(enum))
              r == IF seed_ok THEN Ok(<<Seeded(given[1]), enum>>) ELSE Err(SeedError)
          IN  /\ ret' = r
              /\ log' = Pulled("variant_seed", given, r)
    /\ UNCHANGED <<serVars, mapVars, deVars>>

\* VariantAccess: one of the four methods, once, after variant_seed
CanAccess == CanPull /\ enum # Null /\ Len(log) = 1

unit_variant ==
    /\ CanAccess
    /\ ret' = Enum_unit_variant(enum)
    /\ log' = Pulled("unit_variant", None, Enum_unit_variant(enum))
    /\ UNCHANGED <<serVars, mapVars, deVars>>

newtype_variant_seed ==
    /\ CanAccess
    /\ \E seed_ok \in BOOLEAN :
          LET given == Some(Enum_newtype_variant_seed(enum))
              r == IF seed_ok THEN Ok(Seeded(given[1])) ELSE Err(SeedError)
          IN  /\ ret' = r
              /\ log' = Pulled("newtype_variant_seed", given, r)
    /\ UNCHANGED <<serVars, mapVars, deVars>>

tuple_variant ==
    /\ CanAccess
    /\ ret' = Enum_tuple_variant(enum)
    /\ log' = Pulled("tuple_variant", None, Enum_tuple_variant(enum))
    /\ Hand(Enum_tuple_variant(enum))
    /\ UNCHANGED <<serVars, mapVars, de, requested, visited, depth>>

struct_variant ==
    /\ CanAccess
    /\ ret' = Enum_struct_variant(enum)
    /\ log' = Pulled("struct_variant", None, Enum_struct_variant(enum))
    /\ Hand(Enum_struct_variant(enum))
    /\ UNCHANGED <<serVars, mapVars, de, requested, visited, depth>>

\* the deserializer last handed out: by visit_some or visit_newtype_struct to
\* the visitor, or by a cursor or enum access call to its seed
Handed ==
    IF log = <<>>
    THEN IF visited # Null /\ visited[1] \in {"visit_some", "visit_newtype_struct"}
         THEN Some(visited[2]) ELSE None
    ELSE IF is_some(log[Len(log)].given) /\ log[Len(log)].given[1][1] = "Deserializer"
         THEN log[Len(log)].given ELSE None

\* seed.deserialize(Deserializer(..)): the decode goes on in the deserializer
\* that was handed out
descend ==
    /\ is_some(Handed)
    /\ de' = Handed[1] /\ depth' = depth + 1
    /\ requested' = Null /\ visited' = Null /\ remaining' = Null /\ value' = Null
    /\ cursor' = Null /\ enum' = Null
    /\ ret' = Null /\ log' = <<>>
    /\ UNCHANGED <<serVars, mapVars>>

NextDe ==
    \/ deserialize
    \/ descend
    \/ next_element_seed
    \/ next_key_seed
    \/ next_value_seed
    \/ variant_seed
    \/ unit_variant
    \/ newtype_variant_seed
    \/ tuple_variant
    \/ struct_variant

SpecDe == InitDe /\ [][NextDe]_vars

(***************************************************************************)
(* ser.rs, de.rs: a captured buffer and a hand-built buffer of the same    *)
(* value, serialized and decoded any number of times in any order.         *)
(* serialize borrows the buffer (&self) and into_deserializer takes it     *)
(* (self). log keeps, for each call, the method and the trace it produced. *)
(***************************************************************************)
\* a serialize that leaves the unit buffer behind, as mem::take would
Owned_serialize_borrowed_taking(self) ==
    [self |-> Owned(<<"Unit">>), ret |-> Owned_serialize(self)]

\* Owned::serialize(&self, ..): the buffer after the call and the trace
Owned_serialize_borrowed(self) == [self |-> self, ret |-> Owned_serialize(self)]

\* Ref::serialize(&self, ..): the buffer after the call and the trace
Ref_serialize_borrowed(self) == [self |-> self, ret |-> Ref_serialize(self)]

Replayed(op, trace) == Append(log, [op |-> op, trace |-> trace])

InitReplay ==
    /\ \E x \in DeInputs, borrow \in BOOLEAN :
          /\ t = x
          /\ t_to_owned = Owned_buffer(x)
          /\ ref_buf = Ref_of(x, borrow, "a")
    /\ t_tokens = Null /\ owned_tokens = Null /\ ref_tokens = Null /\ conv = Null
    /\ target = Null /\ owned_to_t = Null /\ ref_to_t = Null
    /\ ret = Null /\ log = <<>>
    /\ MapIdle /\ DeIdle

owned_serialize ==
    /\ t_to_owned # Null /\ Len(log) < MaxReplays
    /\ LET s == Owned_serialize_borrowed(t_to_owned[2])
       IN  /\ t_to_owned' = Ok(s.self)
           /\ owned_tokens' = s.ret
           /\ log' = Replayed("Owned::serialize", s.ret)
    /\ UNCHANGED <<t, ref_buf, t_tokens, ref_tokens, conv, target, owned_to_t,
                   ref_to_t, mapVars, deVars, ret>>

ref_serialize ==
    /\ ref_buf # Null /\ Len(log) < MaxReplays
    /\ LET s == Ref_serialize_borrowed(ref_buf)
       IN  /\ ref_buf' = s.self
           /\ ref_tokens' = s.ret
           /\ log' = Replayed("Ref::serialize", s.ret)
    /\ UNCHANGED <<t, t_to_owned, t_tokens, owned_tokens, conv, target, owned_to_t,
                   ref_to_t, mapVars, deVars, ret>>

\* t_to_owned.into_deserializer(): the buffer is moved into the deserializer
owned_into_deserializer ==
    /\ t_to_owned # Null /\ Len(log) < MaxReplays
    /\ de' = Owned_into_deserializer(t_to_owned[2])
    /\ t_to_owned' = Null
    /\ log' = Replayed("Owned::into_deserializer", Null)
    /\ UNCHANGED <<t, ref_buf, t_tokens, owned_tokens, ref_tokens, conv, target,
                   owned_to_t, ref_to_t, mapVars, requested, visited, remaining, value,
                   cursor, enum, depth, ret>>

\* ref_buf.into_deserializer(): the buffer is moved into the deserializer
ref_into_deserializer ==
    /\ ref_buf # Null /\ Len(log) < MaxReplays
    /\ de' = Ref_into_deserializer(ref_buf)
    /\ ref_buf' = Null
    /\ log' = Replayed("Ref::into_deserializer", Null)
    /\ UNCHANGED <<t, t_to_owned, t_tokens, owned_tokens, ref_tokens, conv, target,
                   owned_to_t, ref_to_t, mapVars, requested, visited, remaining, value,
                   cursor, enum, depth, ret>>

NextReplay ==
    \/ owned_serialize
    \/ ref_serialize
    \/ owned_into_deserializer
    \/ ref_into_deserializer

SpecReplay == InitReplay /\ [][NextReplay]_vars

(***************************************************************************)
(* Properties of the test_case flow (Spec).                                *)
(***************************************************************************)

\* C1: for every value whose capture succeeds, serializing the captured
\* buffer invokes the same sequence of push-interface calls with the same
\* arguments as serializing the value directly.
RoundTripIdentity == owned_tokens # Null => owned_tokens = t_tokens

\* C2, as stated: decoding Capture(v) against v's own typed target succeeds
\* and yields a value equal to v, for every value of every shape.
DecodeIdentity == owned_to_t # Null => owned_to_t = Ok(t)

\* C2, amended: decoding Capture(v) against v's own typed target succeeds and
\* yields a value equal to v, for every target that does not borrow a string
\* or bytes from the input.
DecodeIdentityOwning ==
    (owned_to_t # Null /\ ~Borrows(target)) => owned_to_t = Ok(t)

\* a struct variant with two fields was captured and decoded
DecodeIdentityWitness ==
    /\ owned_to_t = Ok(t) /\ ~Borrows(target)
    /\ t[1] = "struct_variant" /\ t[5] = 2

\* C3: for the same logical value, the Owned buffer produced by capture and a
\* Ref buffer built by hand serialize to identical traces; a borrowed and an
\* owned string or bytes leaf of the same content emit the same call.
OwnedRefEquivalence ==
    /\ (owned_tokens # Null /\ ref_tokens # Null) => owned_tokens = ref_tokens
    /\ ref_tokens # Null =>
          \A a \in Lifetimes :
              /\ Ref_serialize(Ref_str("a string", a))
                     = Ref_serialize(Ref_owned_str("a string"))
              /\ Ref_serialize(Ref_bytes(<<97, 32>>, a))
                     = Ref_serialize(Ref_owned_bytes(<<97, 32>>))

\* both buffers of a sequence holding a borrowed string were replayed
OwnedRefEquivalenceWitness ==
    /\ owned_tokens # Null /\ ref_tokens # Null
    /\ Inner(ref_buf)[1] = "Seq" /\ Len(Inner(ref_buf)[2]) = 2
    /\ Inner(ref_buf)[2][2][1] = "BorrowedStr"

\* C4: Owned -> Ref -> Owned and Ref<'static> -> Owned -> Ref both yield a
\* buffer equal to the original, and the conversion in between holds the same
\* Value tree.
ConversionLaws ==
    conv # Null => conv[4] = conv[2] /\ Inner(conv[3]) = Inner(conv[2])

\* a Ref<'static> holding a borrowed string was converted there and back
ConversionLawsWitness ==
    /\ conv # Null /\ conv[1] = "Ref"
    /\ Inner(conv[2])[1] = "BorrowedStr" /\ Inner(conv[2])[3] = "static"

(***************************************************************************)
(* Properties of the SerializeMap builder (SpecMap).                       *)
(***************************************************************************)
\* the calls of the log that made op and returned Ok
Succeeded(op) == {i \in DOMAIN log : log[i].op = op /\ IsOk(log[i].ret)}

\* C5: serialize_value with no key staged fails "missing map key";
\* serialize_key with a key staged fails "missing map value"; end with a key
\* staged fails "missing map value"; and in any sequence of calls the builder
\* yields a Map only if every staged key was paired with a value, so the Map
\* holds one pair for each key staged and each entry made.
MapStaging ==
    /\ \A i \in DOMAIN log :
          /\ (log[i].op = "serialize_value" /\ ~log[i].staged)
                => log[i].ret = Err(custom("missing map key"))
          /\ (log[i].op = "serialize_key" /\ log[i].staged)
                => log[i].ret = Err(custom("missing map value"))
          /\ (log[i].op = "end" /\ log[i].staged)
                => log[i].ret = Err(custom("missing map value"))
    /\ (Ended /\ IsOk(ret)) =>
          Len(Inner(ret[2])[2]) = Cardinality(Succeeded("serialize_key"))
                                    + Cardinality(Succeeded("serialize_entry"))

(***************************************************************************)
(* Properties of decoding (SpecDe).                                        *)
(***************************************************************************)
\* the pairs stored in the buffer behind a map cursor
StoredPairs ==
    CASE de[2][1] = "Map" -> de[2][2]
      [] de[2][1] = "Struct" -> de[2][3]
      [] de[2][1] = "StructVariant" -> de[2][5]
      [] OTHER -> <<>>

\* the deserializer of a stored key: Value keys for Map, &str keys for the
\* fields of Struct and StructVariant
StoredKey(k) ==
    IF de[2][1] = "Map" THEN Deserializer(k) ELSE <<"StrDeserializer", k>>

\* the calls made on the map cursor
MapLog == SelectSeq(log, LAMBDA e : e.op \in {"next_key_seed", "next_value_seed"})

\* each next_value follows a next_key that gave a key, and each next_key
\* follows a next_value or a next_key that gave none
StrictlyDriven(L) ==
    \A i \in 1..Len(L) :
        IF L[i].op = "next_value_seed"
        THEN i > 1 /\ L[i - 1].op = "next_key_seed" /\ is_some(L[i - 1].given)
        ELSE i > 1 => \/ L[i - 1].op = "next_value_seed"
                      \/ ~is_some(L[i - 1].given)

\* C6: on a map cursor, next_value with no key pending (before any next_key,
\* or as the second next_value in a row) fails "missing map value"; driven
\* strictly key-then-value, the cursor gives each stored pair once in stored
\* order, and next_key returns none after the last pair and on every later
\* call.
MapPull ==
    LET L == MapLog
        n == Len(StoredPairs)
    IN  (cursor # Null /\ cursor[1] = "Map") =>
          /\ \A i \in 1..Len(L) :
                (L[i].op = "next_value_seed"
                    /\ (i = 1 \/ L[i - 1].op = "next_value_seed"))
                  => L[i].given = None /\ L[i].ret = Err(custom("missing map value"))
          /\ StrictlyDriven(L) =>
                \A i \in 1..Len(L) :
                    IF i > 2 * n
                    THEN L[i].op = "next_key_seed" /\ L[i].ret = Ok(None)
                    ELSE IF i % 2 = 1
                    THEN /\ L[i].op = "next_key_seed"
                         /\ L[i].given = Some(StoredKey(StoredPairs[(i + 1) \div 2][1]))
                    ELSE /\ L[i].op = "next_value_seed"
                         /\ L[i].given = Some(Deserializer(StoredPairs[i \div 2][2]))

\* two stored pairs were pulled key-then-value and next_key was called twice
\* more
MapPullWitness ==
    /\ cursor # Null /\ cursor[1] = "Map"
    /\ Len(StoredPairs) = 2 /\ Len(MapLog) = 6 /\ StrictlyDriven(MapLog)
    /\ MapLog[6].ret = Ok(None)

\* the payload category of the stored enum variant
StoredPayload ==
    CASE de[2][1] = "UnitVariant" -> "unit variant"
      [] de[2][1] = "NewtypeVariant" -> "newtype variant"
      [] de[2][1] = "TupleVariant" -> "tuple variant"
      [] de[2][1] = "StructVariant" -> "struct variant"
      [] OTHER -> "none"

\* the payload category a VariantAccess method asks for
RequestedPayload(op) ==
    CASE op = "unit_variant" -> "unit variant"
      [] op = "newtype_variant_seed" -> "newtype variant"
      [] op = "tuple_variant" -> "tuple variant"
      [] op = "struct_variant" -> "struct variant"

IsInvalidType(r) == IsErr(r) /\ Len(r[2]) = 4 /\ r[2][1] = "invalid type: "

Names(r, category) == \E j \in 1..Len(r[2]) : r[2][j] = category

\* C7: tuple_variant fails with an invalid-type error naming "tuple variant"
\* for every stored unit, newtype or struct payload, struct_variant fails with
\* one naming "struct variant" for every stored unit, newtype or tuple
\* payload, unit_variant fails with an invalid-type error for a stored tuple
\* payload, and in none of these failures is the visitor handed a cursor.
EnumPayloadMismatch ==
    \A i \in DOMAIN log :
        LET e == log[i]
        IN  /\ (e.op = "tuple_variant" /\ StoredPayload # "tuple variant")
                  => /\ IsInvalidType(e.ret) /\ Names(e.ret, "tuple variant")
                     /\ cursor = Null
            /\ (e.op = "struct_variant" /\ StoredPayload # "struct variant")
                  => /\ IsInvalidType(e.ret) /\ Names(e.ret, "struct variant")
                     /\ cursor = Null
            /\ (e.op = "unit_variant" /\ StoredPayload = "tuple variant")
                  => IsInvalidType(e.ret) /\ cursor = Null

\* a stored unit variant was decoded through tuple_variant
EnumPayloadMismatchWitness ==
    /\ de[2][1] = "UnitVariant" /\ Len(log) = 2
    /\ log[2].op = "tuple_variant" /\ IsErr(log[2].ret)

\* C8: in every mismatch error of unit_variant, tuple_variant and
\* struct_variant, the unexpected part is the category of the stored payload
\* and the expected part is the category of the entry point requested.
MismatchNamesStoredThenRequested ==
    \A i \in DOMAIN log :
        (log[i].op \in {"unit_variant", "tuple_variant", "struct_variant"}
            /\ IsErr(log[i].ret))
          => log[i].ret = Err(invalid_type(StoredPayload, RequestedPayload(log[i].op)))

IntTags == {"U8", "U16", "U32", "U64", "U128", "I8", "I16", "I32", "I64", "I128"}

\* C9: for every buffer and every typed entry point, the visitor call made
\* is exactly the one deserialize_any makes: a stored integer is delivered
\* at its stored width whatever width was requested.
AnyDecodeFallback ==
    visited # Null =>
        /\ visited = Deserializer_deserialize_any(de)
        /\ de[2][1] \in IntTags => visited = <<VisitMethod(de[2][1]), de[2][2]>>

\* a u8 was requested of a buffer storing a u16
AnyDecodeFallbackWitness ==
    /\ requested = "u8" /\ de[2][1] = "U16" /\ visited = <<"visit_u16", 1>>

\* the visit methods the top-level variant of a buffer may be delivered to
CanonicalVisits(tag) ==
    CASE tag = "U8" -> {"visit_u8"} [] tag = "U16" -> {"visit_u16"}
      [] tag = "U32" -> {"visit_u32"} [] tag = "U64" -> {"visit_u64"}
      [] tag = "U128" -> {"visit_u128"} [] tag = "I8" -> {"visit_i8"}
      [] tag = "I16" -> {"visit_i16"} [] tag = "I32" -> {"visit_i32"}
      [] tag = "I64" -> {"visit_i64"} [] tag = "I128" -> {"visit_i128"}
      [] tag = "F32" -> {"visit_f32"} [] tag = "F64" -> {"visit_f64"}
      [] tag = "Bool" -> {"visit_bool"} [] tag = "Char" -> {"visit_char"}
      [] tag \in {"Str", "BorrowedStr"} ->
            {"visit_str", "visit_string", "visit_borrowed_str"}
      [] tag \in {"Bytes", "BorrowedBytes"} ->
            {"visit_bytes", "visit_byte_buf", "visit_borrowed_bytes"}
      [] tag = "None" -> {"visit_none"}
      [] tag = "Some" -> {"visit_some"}
      [] tag \in {"Unit", "UnitStruct"} -> {"visit_unit"}
      [] tag = "NewtypeStruct" -> {"visit_newtype_struct"}
      [] tag \in {"Struct", "Map"} -> {"visit_map"}
      [] tag \in {"Tuple", "TupleStruct", "Seq"} -> {"visit_seq"}
      [] tag \in {"UnitVariant", "NewtypeVariant", "TupleVariant", "StructVariant"} ->
            {"visit_enum"}

\* C10: deserialize_any makes one top-level visit call, determined only by
\* the top-level variant of the buffer, and never returns an error of its own
\* in its place.
CanonicalVisit ==
    (visited # Null /\ requested = "any") =>
        /\ visited[1] # "Err"
        /\ visited[1] \in CanonicalVisits(de[2][1])

\* deserialize_any was called on a tuple struct
CanonicalVisitWitness ==
    /\ requested = "any" /\ de[2][1] = "TupleStruct" /\ visited # Null
    /\ visited[1] = "visit_seq"

\* C11: at any nesting depth a borrowed string leaf reaches the visitor
\* through visit_borrowed_str and a borrowed bytes leaf through
\* visit_borrowed_bytes, an owned string leaf through visit_string and an
\* owned bytes leaf through visit_byte_buf; the leaves of Ref::str and
\* Ref::bytes go the borrowed way and those of Ref::owned_str and
\* Ref::owned_bytes the owned way.
LeafOwnership ==
    visited # Null =>
        /\ de[2][1] = "BorrowedStr"
              => visited = <<"visit_borrowed_str", de[2][2], de[2][3]>>
        /\ de[2][1] = "BorrowedBytes"
              => visited = <<"visit_borrowed_bytes", de[2][2], de[2][3]>>
        /\ de[2][1] = "Str" => visited = <<"visit_string", de[2][2]>>
        /\ de[2][1] = "Bytes" => visited = <<"visit_byte_buf", de[2][2]>>
        /\ \A a \in Lifetimes :
              /\ Deserializer_deserialize_any(Ref_into_deserializer(Ref_str("a", a)))
                    = <<"visit_borrowed_str", "a", a>>
              /\ Deserializer_deserialize_any(Ref_into_deserializer(Ref_bytes(<<97>>, a)))
                    = <<"visit_borrowed_bytes", <<97>>, a>>
        /\ Deserializer_deserialize_any(Ref_into_deserializer(Ref_owned_str("a")))
              = <<"visit_string", "a">>
        /\ Deserializer_deserialize_any(Ref_into_deserializer(Ref_owned_bytes(<<97>>)))
              = <<"visit_byte_buf", <<97>>>>

\* a borrowed string two deserializers deep was delivered to the visitor
LeafOwnershipWitness ==
    /\ depth = 2 /\ visited # Null
    /\ de[2][1] = "BorrowedStr" /\ visited[1] = "visit_borrowed_str"

(***************************************************************************)
(* Properties of capture (Spec).                                           *)
(***************************************************************************)
RECURSIVE Failure(_)

\* the first failure among children captured in order, Null when none fails
RECURSIVE FirstFailure(_)
FirstFailure(xs) ==
    IF xs = <<>> THEN Null
    ELSE IF Failure(Head(xs)) # Null THEN Failure(Head(xs))
    ELSE FirstFailure(Tail(xs))

\* the first failure of a map's calls: of a child, or of staging
RECURSIVE MapFailure(_, _)
MapFailure(calls, staged) ==
    IF calls = <<>> THEN IF staged THEN <<"missing map value">> ELSE Null
    ELSE LET c == Head(calls)
         IN  CASE c[1] = "key" ->
                    IF staged THEN <<"missing map value">>
                    ELSE IF Failure(c[2]) # Null THEN Failure(c[2])
                    ELSE MapFailure(Tail(calls), TRUE)
               [] c[1] = "value" ->
                    IF ~staged THEN <<"missing map key">>
                    ELSE IF Failure(c[2]) # Null THEN Failure(c[2])
                    ELSE MapFailure(Tail(calls), FALSE)
               [] c[1] = "entry" ->
                    IF staged THEN <<"missing map value">>
                    ELSE IF FirstFailure(<<c[2], c[3]>>) # Null
                    THEN FirstFailure(<<c[2], c[3]>>)
                    ELSE MapFailure(Tail(calls), FALSE)

\* the error the serialize logic of a typed value runs into first, at any
\* depth, Null when it runs into none
Failure(x) ==
    LET second(fs) == [i \in 1..Len(fs) |-> fs[i][2]]
    IN
    CASE x[1] = "custom" -> <<x[2]>>
      [] x[1] = "some" -> Failure(x[2])
      [] x[1] = "newtype_struct" -> Failure(x[3])
      [] x[1] = "newtype_variant" -> Failure(x[5])
      [] x[1] \in {"seq", "tuple"} -> FirstFailure(x[3])
      [] x[1] = "tuple_struct" -> FirstFailure(x[4])
      [] x[1] = "tuple_variant" -> FirstFailure(x[6])
      [] x[1] = "struct" -> FirstFailure(second(x[4]))
      [] x[1] = "struct_variant" -> FirstFailure(second(x[6]))
      [] x[1] = "map" -> MapFailure(x[3], FALSE)
      [] OTHER -> Null

StoredElements ==
    CASE de[2][1] \in {"Seq", "Tuple"} -> de[2][2]
      [] de[2][1] = "TupleStruct" -> de[2][3]
      [] de[2][1] = "TupleVariant" -> de[2][5]
      [] OTHER -> <<>>

\* the calls made on the sequence cursor
SeqLog == SelectSeq(log, LAMBDA e : e.op = "next_element_seed")

\* C13: the cursor over a Seq, Tuple, TupleStruct or tuple-variant payload of
\* n elements gives, on successive next_element calls, the n elements in
\* stored order, each once, then none on call n+1 and on every later call.
SeqPull ==
    LET n == Len(StoredElements)
    IN  cursor = <<"Seq">> =>
          /\ \A i \in 1..Len(SeqLog) :
                IF i <= n
                THEN SeqLog[i].given = Some(Deserializer(StoredElements[i]))
                ELSE SeqLog[i].given = None /\ SeqLog[i].ret = Ok(None)
          /\ remaining = SubSeq(StoredElements, min(Len(SeqLog), n) + 1, n)

\* the two elements of a tuple variant were pulled and next_element was
\* called twice more
SeqPullWitness ==
    /\ cursor = <<"Seq">> /\ de[2][1] = "TupleVariant"
    /\ Len(StoredElements) = 2 /\ Len(SeqLog) = 4
    /\ SeqLog[3].ret = Ok(None) /\ SeqLog[4].ret = Ok(None)

\* the buffer being decoded with its variant renamed
Renamed == [de EXCEPT ![2][4] = "Renamed"]

\* C14: for every stored enum variant, variant_seed hands its seed a
\* deserializer of the stored variant_index as a U32, whose visitor receives
\* visit_u32(variant_index), before any payload access; no name is handed to
\* the seed, and a buffer that differs only in its variant name hands its seed
\* the same deserializer.
EnumIndexDispatch ==
    (visited # Null /\ visited[1] = "visit_enum") =>
        /\ \A i \in DOMAIN log :
              /\ log[i].op = "variant_seed" =>
                    /\ i = 1
                    /\ log[i].given = Some(Deserializer(<<"U32", de[2][3]>>))
                    /\ Deserializer_deserialize_any(log[i].given[1])
                          = <<"visit_u32", de[2][3]>>
              /\ log[i].op \in {"unit_variant", "newtype_variant_seed",
                                 "tuple_variant", "struct_variant"} =>
                    i = 2 /\ log[1].op = "variant_seed"
        /\ Enum_variant_seed(Deserializer_deserialize_any(Renamed)[2])
              = Enum_variant_seed(enum)

\* variant_seed was called on a stored struct variant of index 3
EnumIndexDispatchWitness ==
    /\ visited # Null /\ visited[1] = "visit_enum" /\ de[2][1] = "StructVariant"
    /\ Len(log) >= 1 /\ log[1].op = "variant_seed"
    /\ log[1].given = Some(Deserializer(<<"U32", 3>>))


\* the buffer a child is captured as
Capture(x) == Inner(T_serialize(x)[2])

\* the children a captured composite stores: its last component
StoredChildren(v) == v[Len(v)]

(***************************************************************************)
(* C15: capture preserves order and multiplicity. When the capture of a    *)
(* composite succeeds, the buffer stores exactly one child per builder     *)
(* call, in call order, each the capture of the value passed: elements for *)
(* a seq, tuple, tuple struct and tuple variant, (name, value) for a       *)
(* struct and struct variant (repeated names kept), (key, value) for a map *)
(* (equal keys kept, keys of any shape).                                   *)
(***************************************************************************)
CaptureOrder ==
    (t # Null /\ IsOk(t_to_owned)) =>
        LET stored == StoredChildren(Inner(t_to_owned[2]))
            kids == t[Len(t)]
        IN  CASE t[1] \in {"seq", "tuple", "tuple_struct", "tuple_variant"} ->
                    stored = [i \in 1..Len(kids) |-> Capture(kids[i])]
              [] t[1] \in {"struct", "struct_variant"} ->
                    stored = [i \in 1..Len(kids) |->
                                 <<kids[i][1], Capture(kids[i][2])>>]
              [] t[1] = "map" ->
                    /\ MapPairs(kids) # Null
                    /\ LET ps == MapPairs(kids)[2]
                       IN  stored = [i \in 1..Len(ps) |->
                                        <<Capture(ps[i][1]), Capture(ps[i][2])>>]
              [] OTHER -> TRUE

\* a map captured with two equal keys, the second of them a key call
CaptureOrderWitness ==
    /\ t # Null /\ t[1] = "map" /\ IsOk(t_to_owned)
    /\ Len(t[3]) = 4 /\ t[3][3][1] = "key" /\ t[3][1][2] = t[3][3][2]
    /\ Len(StoredChildren(Inner(t_to_owned[2]))) = 2


\* the four options told apart: None, Some(None), Some(()) and Some(Some(x))
Options ==
    <<(<<"none">>), (<<"some", <<"none">>>>), (<<"some", <<"unit">>>>),
      (<<"some", <<"some", <<"u8", 1>>>>>>)>>

(***************************************************************************)
(* C16: Option is structural, one level per wrapper. Capturing None stores *)
(* None and capturing Some(x) stores Some of the capture of x; decoding    *)
(* None calls visit_none and decoding Some(inner) calls visit_some with a  *)
(* deserializer over inner; the buffers of None, Some(None), Some(()) and  *)
(* Some(Some(x)) are pairwise distinct and each decodes back to the option *)
(* it was captured from.                                                   *)
(***************************************************************************)
OptionStructural ==
    /\ (t = <<"none">> /\ t_to_owned # Null) => t_to_owned = Ok(Owned(<<"None">>))
    /\ (t # Null /\ t[1] = "some" /\ t_to_owned # Null) =>
           IF IsErr(T_serialize(t[2])) THEN t_to_owned = T_serialize(t[2])
           ELSE t_to_owned = Ok(Owned(<<"Some", Capture(t[2])>>))
    /\ (t = <<"some", <<"u8", 1>>>> /\ t_to_owned # Null) =>
           t_to_owned = Ok(Owned(<<"Some", <<"U8", 1>>>>))
    /\ IsOk(t_to_owned) =>
           LET v == Inner(t_to_owned[2])
               visit == Deserializer_deserialize_any(Owned_into_deserializer(t_to_owned[2]))
           IN  /\ v[1] = "None" => visit = <<"visit_none">>
               /\ v[1] = "Some" => visit = <<"visit_some", Deserializer(v[2])>>
    /\ \A i, j \in DOMAIN Options :
           i # j => /\ IsOk(T_serialize(Options[i]))
                    /\ T_serialize(Options[i]) # T_serialize(Options[j])
    /\ (\E i \in DOMAIN Options : t = Options[i]) /\ owned_to_t # Null =>
           owned_to_t = Ok(t)

\* Some(Some(x)) was captured with two levels and decoded back
OptionStructuralWitness ==
    /\ t = Options[4] /\ owned_to_t = Ok(t)
    /\ t_to_owned = Ok(Owned(<<"Some", <<"Some", <<"U8", 1>>>>>>))


\* whether no node of a buffer is a borrowed string or borrowed bytes leaf
RECURSIVE IsOwned(_)
IsOwned(v) ==
    CASE v[1] \in {"BorrowedStr", "BorrowedBytes"} -> FALSE
      [] v[1] \in {"Some", "NewtypeStruct", "NewtypeVariant"} -> IsOwned(StoredChildren(v))
      [] v[1] \in {"Seq", "Tuple", "TupleStruct", "TupleVariant"} ->
            \A i \in DOMAIN StoredChildren(v) : IsOwned(StoredChildren(v)[i])
      [] v[1] \in {"Struct", "StructVariant"} ->
            \A i \in DOMAIN StoredChildren(v) : IsOwned(StoredChildren(v)[i][2])
      [] v[1] = "Map" ->
            \A i \in DOMAIN StoredChildren(v) :
                IsOwned(StoredChildren(v)[i][1]) /\ IsOwned(StoredChildren(v)[i][2])
      [] OTHER -> TRUE

(***************************************************************************)
(* C17: every buffer the capture produces is fully owned: no node at any   *)
(* depth is a BorrowedStr or BorrowedBytes leaf, strings and bytes are     *)
(* stored as Str and Bytes. A buffer built by hand has a borrowed leaf     *)
(* only when it was built with Ref::str or Ref::bytes.                     *)
(***************************************************************************)
CaptureOwned ==
    /\ IsOk(t_to_owned) => IsOwned(Inner(t_to_owned[2]))
    /\ (t # Null /\ t[1] \in {"str", "bytes"} /\ t_to_owned # Null) =>
           t_to_owned = Ok(Owned(<<IF t[1] = "str" THEN "Str" ELSE "Bytes", t[2]>>))
    /\ ref_buf # Null =>
           /\ ref_buf = Ref_of(t, FALSE, "a") => IsOwned(Inner(ref_buf))
           /\ ~IsOwned(Inner(ref_buf)) => \E a \in Lifetimes : ref_buf = Ref_of(t, TRUE, a)

\* a string two levels deep was captured as an owned leaf, and the buffer
\* built by hand for the same value borrows it
CaptureOwnedWitness ==
    /\ t = <<"some", <<"tuple", 2, <<(<<"unit">>), (<<"str", "a">>)>>>>>>
    /\ t_to_owned = Ok(Owned(<<"Some", <<"Tuple", <<(<<"Unit">>), (<<"Str", "a">>)>>>>>>))
    /\ ref_buf # Null /\ ~IsOwned(Inner(ref_buf))


(***************************************************************************)
(* Properties of the map builder (SpecMap).                                *)
(***************************************************************************)
\* the step is a call of serialize_entry
EntryCalled == log' # log /\ log'[Len(log')].op = "serialize_entry"

(***************************************************************************)
(* C18: serialize_entry bypasses staging. A call of serialize_entry never  *)
(* changes the staged key; when it succeeds no key was staged, none is     *)
(* staged after it, and exactly the pair of the captured key and value was *)
(* appended; called while a key is staged it fails with "missing map       *)
(* value"; and whenever it fails no pair is appended.                      *)
(***************************************************************************)
EntryBypassesStaging ==
    [][EntryCalled =>
          LET call == log'[Len(log')]
          IN  /\ key' = key
              /\ IsOk(ret') =>
                    /\ key = None /\ key' = None
                    /\ fields' = Append(fields, <<Capture(call.k), Capture(call.v)>>)
              /\ is_some(key) => ret' = Err(custom("missing map value"))
              /\ IsErr(ret') => fields' = fields]_vars

\* serialize_entry was refused while a key was staged, and after the value
\* of that key it appended a second pair
EntryBypassesStagingWitness ==
    /\ \E i, j \in DOMAIN log :
          /\ i < j
          /\ log[i].op = "serialize_entry" /\ log[i].staged
          /\ log[i].ret = Err(custom("missing map value"))
          /\ log[j].op = "serialize_entry" /\ IsOk(log[j].ret)
    /\ key = None /\ Len(fields) = 2


(***************************************************************************)
(* C19: newtype decode of an enum payload never raises a buffer shape      *)
(* error. newtype_variant_seed returns what its seed returns, and the seed *)
(* is handed a deserializer over the wrapped value for a stored newtype    *)
(* variant, over a Tuple of the same elements in the same order for a      *)
(* stored tuple variant (its visitor sees visit_seq), over a Struct of the *)
(* same fields in the same order for a stored struct variant (visit_map),  *)
(* and over Unit for a stored unit variant (visit_unit).                   *)
(***************************************************************************)
NewtypeDecode ==
    \A i \in DOMAIN log :
        log[i].op = "newtype_variant_seed" =>
            LET d == log[i].given[1]
                visit == Deserializer_deserialize_any(d)
            IN  /\ log[i].ret \in {Ok(Seeded(d)), Err(SeedError)}
                /\ de[2][1] = "NewtypeVariant" => d = Deserializer(de[2][5])
                /\ de[2][1] = "TupleVariant" =>
                      /\ d = Deserializer(<<"Tuple", de[2][5]>>)
                      /\ visit = <<"visit_seq", Seq_new(de[2][5])>>
                /\ de[2][1] = "StructVariant" =>
                      /\ d[2][1] = "Struct" /\ StoredChildren(d[2]) = de[2][5]
                      /\ visit = <<"visit_map", Map_new_str_key(de[2][5])>>
                /\ de[2][1] = "UnitVariant" =>
                      /\ d = Deserializer(<<"Unit">>)
                      /\ visit = <<"visit_unit">>

\* the payload of a stored struct variant with a field was decoded as a
\* newtype
NewtypeDecodeWitness ==
    /\ de[2][1] = "StructVariant" /\ Len(de[2][5]) >= 1
    /\ Len(log) = 2 /\ log[2].op = "newtype_variant_seed" /\ IsOk(log[2].ret)


\* the typed values that open a builder
BuilderTags ==
    {"seq", "tuple", "tuple_struct", "tuple_variant", "map", "struct", "struct_variant"}

\* where a typed value keeps the length it declares
HintAt(x) ==
    CASE x[1] \in {"seq", "map", "tuple"} -> 2
      [] x[1] \in {"tuple_struct", "struct"} -> 3
      [] x[1] \in {"tuple_variant", "struct_variant"} -> 5

\* the length a typed value declares, 0 when it declares none
Declared(x) == IF x[1] \in {"seq", "map"} THEN unwrap_or_0(x[2]) ELSE x[HintAt(x)]

\* the same typed value declaring length h
Declaring(x, h) ==
    [x EXCEPT ![HintAt(x)] = IF x[1] \in {"seq", "map"} THEN Some(h) ELSE h]

\* the builder a typed value opens
Created(x) ==
    CASE x[1] = "seq" -> Serializer_serialize_seq(x[2])[2]
      [] x[1] = "tuple" -> Serializer_serialize_tuple(x[2])[2]
      [] x[1] = "tuple_struct" -> Serializer_serialize_tuple_struct(x[2], x[3])[2]
      [] x[1] = "tuple_variant" ->
            Serializer_serialize_tuple_variant(x[2], x[3], x[4], x[5])[2]
      [] x[1] = "map" -> Serializer_serialize_map(x[2])[2]
      [] x[1] = "struct" -> Serializer_serialize_struct(x[2], x[3])[2]
      [] x[1] = "struct_variant" ->
            Serializer_serialize_struct_variant(x[2], x[3], x[4], x[5])[2]

(***************************************************************************)
(* C20: length hints only bound pre-allocation. Every builder reserves the *)
(* declared length when it is at most 32 and 32 otherwise (0 when a seq or *)
(* map declares none), and the capture returns the same result whatever    *)
(* length is declared: a buffer with exactly the children pushed, also for *)
(* more than 32 children and for more or fewer children than declared.     *)
(***************************************************************************)
HintsOnlyPreallocate ==
    (t # Null /\ t[1] \in BuilderTags /\ t_to_owned # Null) =>
        /\ Created(t).capacity = IF Declared(t) <= 32 THEN Declared(t) ELSE 32
        /\ Created(t).fields = <<>>
        /\ \A h \in {0, 1, 32, 33, BigHint} : t_to_owned = T_serialize(Declaring(t, h))
        /\ t[1] \in {"seq", "map"} => t_to_owned = T_serialize([t EXCEPT ![2] = None])
        /\ IsOk(t_to_owned) =>
              Len(StoredChildren(Inner(t_to_owned[2])))
                  = IF t[1] = "map" THEN Len(MapPairs(t[3])[2]) ELSE Len(t[Len(t)])

\* a sequence that declared 2 elements and pushed more than 32 was captured
\* with all of them
HintsOnlyPreallocateWitness ==
    /\ t # Null /\ t[1] = "seq" /\ t[2] = Some(2) /\ Len(t[3]) > 32
    /\ IsOk(t_to_owned) /\ Len(StoredChildren(Inner(t_to_owned[2]))) = Len(t[3])


(***************************************************************************)
(* Properties of replay (SpecReplay).                                      *)
(***************************************************************************)
\* the step is a call of the method op
ReplayCalled(op) == log' # log /\ log'[Len(log')].op = op

\* the traces the earlier calls of the method op produced
EarlierTraces(op) == {log[i].trace : i \in {j \in DOMAIN log : log[j].op = op}}

RECURSIVE Nodes(_)
Nodes(v) ==
    LET kids == StoredChildren(v)
    IN  {v} \cup
        CASE v[1] \in {"Some", "NewtypeStruct", "NewtypeVariant"} -> Nodes(kids)
          [] v[1] \in {"Seq", "Tuple", "TupleStruct", "TupleVariant"} ->
                UNION {Nodes(kids[i]) : i \in DOMAIN kids}
          [] v[1] \in {"Struct", "StructVariant"} ->
                UNION {Nodes(kids[i][2]) : i \in DOMAIN kids}
          [] v[1] = "Map" ->
                UNION {Nodes(kids[i][1]) \cup Nodes(kids[i][2]) : i \in DOMAIN kids}
          [] OTHER -> {}

\* the call that opens the builder of a composite buffer, without its length
Opening(v) ==
    CASE v[1] = "Seq" -> <<"serialize_seq">>
      [] v[1] = "Map" -> <<"serialize_map">>
      [] v[1] = "Tuple" -> <<"serialize_tuple">>
      [] v[1] = "TupleStruct" -> <<"serialize_tuple_struct", v[2]>>
      [] v[1] = "Struct" -> <<"serialize_struct", v[2]>>
      [] v[1] = "TupleVariant" -> <<"serialize_tuple_variant", v[2], v[3], v[4]>>
      [] v[1] = "StructVariant" -> <<"serialize_struct_variant", v[2], v[3], v[4]>>

CompositeTags ==
    {"Seq", "Map", "Tuple", "TupleStruct", "Struct", "TupleVariant", "StructVariant"}

Openers ==
    {"serialize_seq", "serialize_map", "serialize_tuple", "serialize_tuple_struct",
     "serialize_struct", "serialize_tuple_variant", "serialize_struct_variant"}

\* the calls of a trace made on the outermost builder, d builders being open
RECURSIVE OwnCalls(_, _)
OwnCalls(trace, d) ==
    IF trace = <<>> THEN <<>>
    ELSE LET h == Head(trace)
             d2 == IF h[1] \in Openers THEN d + 1 ELSE IF h[1] = "end" THEN d - 1 ELSE d
         IN  (IF d = 1 /\ h[1] \in {"serialize_element", "serialize_field",
                                     "serialize_entry", "serialize_key",
                                     "serialize_value", "end"}
              THEN <<h>> ELSE <<>>) \o OwnCalls(Tail(trace), d2)

RECURSIVE EntryCalls(_)
EntryCalls(ps) ==
    IF ps = <<>> THEN <<>>
    ELSE <<<<"serialize_entry">>>> \o Value_serialize(ps[1][1])
            \o Value_serialize(ps[1][2]) \o EntryCalls(Tail(ps))

KeyYields(L, i) ==
    {j \in 1..i : L[j].op = "next_key_seed" /\ is_some(L[j].given)}

\* the calls of L in which next_value delivered a value
ValueDeliveries(L) ==
    {j \in DOMAIN L : L[j].op = "next_value_seed" /\ is_some(L[j].given)}

\* the largest member of a non-empty set of numbers
Last(S) == CHOOSE j \in S : \A k \in S : k <= j

(***************************************************************************)
(* C24: map cursor pairing under any call order. The k-th next_key that    *)
(* yields a key yields the key of the k-th stored pair, and next_key never *)
(* returns an error of the cursor, also while a value is pending; every    *)
(* value next_value delivers is the value of the pair whose key was        *)
(* yielded most recently, and no other next_value delivered since that key *)
(* was yielded. So a next_key that yields discards a pending value, and a  *)
(* next_key on the exhausted cursor returns none and leaves it pending.    *)
(***************************************************************************)
MapPairing ==
    LET L == MapLog
    IN  (cursor # Null /\ cursor[1] = "Map") =>
          /\ \A i \in DOMAIN L :
                L[i].op = "next_key_seed" =>
                    LET k == Cardinality(KeyYields(L, i - 1)) + 1
                    IN  /\ L[i].given = IF k <= Len(StoredPairs)
                                        THEN Some(StoredKey(StoredPairs[k][1])) ELSE None
                        /\ L[i].ret \in IF k <= Len(StoredPairs)
                                         THEN {Ok(Some(Seeded(StoredKey(StoredPairs[k][1])))),
                                               Err(SeedError)}
                                         ELSE {Ok(None)}
          /\ \A i \in ValueDeliveries(L) :
                /\ KeyYields(L, i) # {}
                /\ LET j == Last(KeyYields(L, i))
                       k == Cardinality(KeyYields(L, i))
                   IN  /\ L[i].given = Some(Deserializer(StoredPairs[k][2]))
                       /\ ValueDeliveries(L) \cap (j..i) = {i}
          /\ \A i \in DOMAIN L :
                (L[i].op = "next_value_seed" /\ ~is_some(L[i].given)) =>
                    /\ L[i].ret = Err(custom("missing map value"))
                    /\ \/ KeyYields(L, i) = {}
                       \/ ValueDeliveries(L) \cap (Last(KeyYields(L, i))..i) # {}
          /\ value = IF KeyYields(L, Len(L)) # {}
                         /\ ValueDeliveries(L) \cap (Last(KeyYields(L, Len(L)))..Len(L)) = {}
                     THEN Some(StoredPairs[Cardinality(KeyYields(L, Len(L)))][2])
                     ELSE None

\* two keys were yielded in a row, the exhausted cursor was asked for a third,
\* and next_value then delivered the value of the second pair, not the first
MapPairingWitness ==
    /\ cursor # Null /\ cursor[1] = "Map" /\ Len(StoredPairs) = 2
    /\ StoredPairs[1][2] # StoredPairs[2][2]
    /\ Len(MapLog) = 4
    /\ MapLog[1].op = "next_key_seed" /\ MapLog[2].op = "next_key_seed"
    /\ MapLog[3].op = "next_key_seed" /\ MapLog[3].ret = Ok(None)
    /\ MapLog[4].op = "next_value_seed"
    /\ MapLog[4].given = Some(Deserializer(StoredPairs[2][2]))


(***************************************************************************)
(* Properties of the map builder when a call fails (SpecMap).              *)
(***************************************************************************)
\* the step is a call of the builder method op
BuilderCalled(op) == log' # log /\ log'[Len(log')].op = op

\* the last call was a serialize_value that had a key staged and failed to
\* capture its value
ValueCaptureFailed ==
    /\ log # <<>> /\ log[Len(log)].op = "serialize_value" /\ log[Len(log)].staged
    /\ IsErr(log[Len(log)].ret)

(***************************************************************************)
(* C25: when serialize_value is called with a key staged and capturing the *)
(* value fails, the call returns that error, no pair is appended and the   *)
(* staged key is gone: the builder is Empty, a following end succeeds with *)
(* the pairs accumulated before, and a following serialize_value fails     *)
(* with "missing map key". When serialize_key fails because capturing the  *)
(* key fails, nothing is staged and no pair is appended.                   *)
(***************************************************************************)
FailedValueConsumesKey ==
    [][/\ (BuilderCalled("serialize_value") /\ is_some(key)
             /\ IsErr(T_serialize(log'[Len(log')].v))) =>
               /\ ret' = T_serialize(log'[Len(log')].v)
               /\ fields' = fields /\ key' = None
       /\ (BuilderCalled("serialize_key") /\ ~is_some(key)
             /\ IsErr(T_serialize(log'[Len(log')].k))) =>
               /\ ret' = T_serialize(log'[Len(log')].k)
               /\ fields' = fields /\ key' = None
       /\ (ValueCaptureFailed /\ BuilderCalled("end")) =>
               ret' = Ok(Owned(<<"Map", fields>>))
       /\ (ValueCaptureFailed /\ BuilderCalled("serialize_value")) =>
               ret' = Err(custom("missing map key")) /\ fields' = fields]_vars

\* a key was staged, capturing its value failed, and end returned an empty
\* map
FailedValueConsumesKeyWitness ==
    /\ Len(log) = 3
    /\ log[1].op = "serialize_key" /\ IsOk(log[1].ret)
    /\ log[2].op = "serialize_value" /\ log[2].ret = Err(custom("failed"))
    /\ log[3].op = "end" /\ ret = Ok(Owned(<<"Map", <<>>>>))


(***************************************************************************)
(* C26: a staging violation changes nothing and does not run the           *)
(* argument's serialize logic. serialize_key while a key is staged,        *)
(* serialize_value with no key staged and serialize_entry while a key is   *)
(* staged return the staging error, also for an argument whose own         *)
(* serialize fails, and leave the staged key and the accumulated pairs as  *)
(* they were.                                                              *)
(***************************************************************************)
StagingViolationFrame ==
    [][/\ (BuilderCalled("serialize_key") /\ is_some(key)) =>
               /\ ret' = Err(custom("missing map value"))
               /\ key' = key /\ fields' = fields
       /\ (BuilderCalled("serialize_value") /\ ~is_some(key)) =>
               /\ ret' = Err(custom("missing map key"))
               /\ key' = None /\ fields' = fields
       /\ (BuilderCalled("serialize_entry") /\ is_some(key)) =>
               /\ ret' = Err(custom("missing map value"))
               /\ key' = key /\ fields' = fields]_vars

\* serialize_key was called with a key whose serialize fails while another
\* key was staged: the staging error came back and the first key is staged
StagingViolationFrameWitness ==
    /\ Len(log) = 2
    /\ log[1].op = "serialize_key" /\ IsOk(log[1].ret)
    /\ log[2].op = "serialize_key" /\ log[2].k = <<"custom", "failed">>
    /\ log[2].ret = Err(custom("missing map value"))
    /\ key = Some(Capture(log[1].k)) /\ fields = <<>>


(***************************************************************************)
(* Properties of decoding a newtype variant of Unit (SpecDe).              *)
(***************************************************************************)
\* the stored unit variant with the enum name, index and variant name of a
\* stored variant
AsUnitVariant(v) == <<"UnitVariant", v[2], v[3], v[4]>>

(***************************************************************************)
(* C27: a stored newtype variant whose wrapped value is Unit decodes like  *)
(* the stored unit variant of the same index: the visitor is handed the    *)
(* same enum access, unit_variant succeeds, and tuple_variant and          *)
(* struct_variant report a unit variant. For a stored newtype variant of   *)
(* any other value unit_variant fails and tuple_variant and struct_variant *)
(* report a newtype variant.                                               *)
(***************************************************************************)
UnitNewtypeAlike ==
    de[2][1] \in {"UnitVariant", "NewtypeVariant"} =>
        LET unit == de[2][1] = "UnitVariant" \/ de[2][5] = <<"Unit">>
            actual == IF unit THEN "unit variant" ELSE "newtype variant"
        IN  /\ (unit /\ visited # Null) =>
                   visited = Deserializer_deserialize_any(Deserializer(AsUnitVariant(de[2])))
            /\ \A i \in DOMAIN log :
                   /\ log[i].op = "unit_variant" =>
                         IF unit THEN log[i].ret = Ok(<<>>) ELSE IsErr(log[i].ret)
                   /\ log[i].op = "tuple_variant" =>
                         log[i].ret = Err(invalid_type(actual, "tuple variant"))
                   /\ log[i].op = "struct_variant" =>
                         log[i].ret = Err(invalid_type(actual, "struct variant"))

\* struct_variant was called on a stored newtype variant of Unit and
\* reported a unit variant
UnitNewtypeAlikeWitness ==
    /\ de[2][1] = "NewtypeVariant" /\ de[2][5] = <<"Unit">>
    /\ Len(log) = 2 /\ log[2].op = "struct_variant"
    /\ log[2].ret = Err(invalid_type("unit variant", "struct variant"))


(***************************************************************************)
(* Properties of the error (SpecDe).                                       *)
(***************************************************************************)
\* the errors the calls of the decode returned
Returned == {log[i].ret[2] : i \in {j \in DOMAIN log : IsErr(log[j].ret)}}

\* errors created with the messages of the capture and replay adapters
CreatedErrors ==
    {custom("missing map key"), custom("missing map value"), custom("failed"),
     invalid_type(Unexpected_UnitVariant, "newtype variant"),
     invalid_type(Unexpected_NewtypeVariant, "tuple variant")}

(***************************************************************************)
(* C28: the error is opaque when displayed. Every error, whatever message  *)
(* it was created with ("missing map key", "missing map value", an invalid *)
(* type message, a message forwarded from the driven value), displays as   *)
(* "error buffering a value"; the message is kept in the value, so errors  *)
(* created with different messages are different values with one display.  *)
(***************************************************************************)
ErrorOpaque ==
    /\ \A e \in Returned \cup CreatedErrors : Error_fmt(e) = "error buffering a value"
    /\ IsErr(ret) => Error_fmt(ret[2]) = "error buffering a value"
    /\ \A m1, m2 \in {"missing map key", "missing map value", "failed"} :
          /\ custom(m1) = <<m1>>
          /\ m1 # m2 => custom(m1) # custom(m2)

\* an enum access returned an invalid type error and the map cursor case of
\* "missing map value" is an error of a different message
ErrorOpaqueWitness ==
    /\ IsErr(ret) /\ Len(ret[2]) = 4 /\ ret[2][1] = "invalid type: "
    /\ Error_fmt(ret[2]) = Error_fmt(custom("missing map value"))
    /\ ret[2] # custom("missing map value")

====
